---------------------------- MODULE Spec2Model ----------------------------
(***************************************************************************)
(* A model of auto-release-action: the release decision engine, the        *)
(* manifest parser, the changelog parser, the changelog fallback and the   *)
(* run of the action from its inputs to its outputs.                       *)
(*                                                                         *)
(* A JavaScript string is a sequence of one-character strings, so that     *)
(* concatenation, startsWith, substring, split, join and the regular       *)
(* expression of the changelog parser are computed character by character. *)
(* An optional value (string | null) is a sequence of length 0 or 1.       *)
(***************************************************************************)
EXTENDS Integers, Sequences, FiniteSets, TLC

VARIABLES
    currentVersion,     \* determineReleaseDecision: argument currentVersion;
                        \* run: const currentVersion
    latestTag,          \* determineReleaseDecision: argument latestTag (string | null);
                        \* run: const latestTag
    tagPrefix,          \* determineReleaseDecision: argument tagPrefix;
                        \* run: config.tagPrefix
    tagAlreadyExists,   \* determineReleaseDecision: argument tagAlreadyExists;
                        \* run: const tagAlreadyExists
    decision,           \* the ReleaseDecision returned, NotYet before the call
    packageContent,     \* parsePackageJson: argument content, as JSON tokens
    packageResult,      \* what parsePackageJson returned or threw, NotYet before the call
    argContent,         \* parseChangelogContent: argument content
    argVersion,         \* parseChangelogContent: argument version
    changelog,          \* what parseChangelogContent returned, NotYet before the call
    inlineChangelog,    \* what parseChangelogContent of changelog.ts returned
    fallbackContent,    \* getChangelogWithFallback: argument changelogContent
    fallbackVersion,    \* getChangelogWithFallback: argument version
    fallbackResult,     \* what getChangelogWithFallback returned, NotYet before the call
    pc,                 \* run: the step the run is at
    inputs,             \* what core.getInput returns for each input of the action
    config,             \* run: const config, what parseInputs returned
    releaseBody,        \* run: const changelogContent, the body of the release
    files,              \* the manifest and the changelog on disk
    calls,              \* the calls made to the file system, git and the GitHub API
    outputs,            \* the core.setOutput calls, in order
    failures,           \* the core.setFailed calls, in order
    warnings,           \* the core.warning calls, in order
    infos,              \* the core.info calls, in order
    release,            \* the parameters createRelease was called with, or null
    repository,         \* the tags of the repository, and those pushed to origin
    previousRuns,       \* how each earlier run on this repository ended
    gitOutput,          \* parseGitTags: argument output
    gitTags             \* what the two parseGitTags returned, NotYet before the call

decideVars == <<currentVersion, latestTag, tagPrefix, tagAlreadyExists, decision>>
manifestVars == <<packageContent, packageResult>>
changelogVars == <<argContent, argVersion, changelog, inlineChangelog>>
fallbackVars == <<fallbackContent, fallbackVersion, fallbackResult>>
runVars == <<pc, inputs, config, releaseBody, files, calls, outputs, failures,
             warnings, infos, release, repository, previousRuns>>
gitTagsVars == <<gitOutput, gitTags>>
vars == <<decideVars, manifestVars, changelogVars, fallbackVars, runVars, gitTagsVars>>

\* The value of a variable whose function has not been called yet.
NotYet == [pending |-> TRUE]

--------------------------------------------------------------------------
(* Bounds of the model *)

\* Longest version string handed to determineReleaseDecision.
MaxVersionLen == 2
\* Longest tag prefix handed to determineReleaseDecision.
MaxPrefixLen == 1

\* Longest manifest content, in JSON tokens, handed to parsePackageJson.
MaxTokens == 5

\* Most lines of a changelog handed to parseChangelogContent.
MaxLines == 4

\* The characters of the versions and tags of the decision engine, and those
\* of its tag prefixes.
TagChars == {"v", "1", "-"}

\* Every string over chars of length at most n.
Strings(chars, n) == UNION {[1..k -> chars] : k \in 0..n}

--------------------------------------------------------------------------
(* JavaScript strings and optional values *)

\* null
Null == <<>>
\* a string held by a (string | null) variable
Some(s) == <<s>>

\* String.prototype.startsWith
StartsWith(s, p) == Len(p) <= Len(s) /\ SubSeq(s, 1, Len(p)) = p

\* String.prototype.substring(start), start a 0-based index
Substring(s, start) == SubSeq(s, start + 1, Len(s))

\* !value for a (string | null): null and the empty string are falsy
Falsy(opt) == opt = Null \/ opt[1] = <<>>

--------------------------------------------------------------------------
(* utils: buildTagName; parsers/package-json.parser: extractVersionFromTag *)

\* A separator is inserted between prefix and version.
buildTagNameWithSeparator(prefix, version) == prefix \o <<"-">> \o version

buildTagName(prefix, version) == prefix \o version

\* The prefix is cut off without testing that the tag starts with it.
extractVersionFromTagUnchecked(tag, prefix) == Substring(tag, Len(prefix))

extractVersionFromTag(tag, prefix) ==
    IF StartsWith(tag, prefix) THEN Substring(tag, Len(prefix)) ELSE tag

--------------------------------------------------------------------------
(* index.ts: determineReleaseDecision *)

\* The unchanged branch is missing: every prior tag counts as a change.
determineReleaseDecisionNoUnchanged(cur, latest, prefix, exists) ==
    LET newTagName == buildTagName(prefix, cur) IN
    IF Falsy(latest)
    THEN [versionChanged |-> TRUE, shouldCreateRelease |-> TRUE,
          newTagName |-> newTagName, currentVersion |-> cur]
    ELSE LET latestVersion == extractVersionFromTag(latest[1], prefix) IN
         IF exists
         THEN [versionChanged |-> TRUE, shouldCreateRelease |-> FALSE,
               newTagName |-> newTagName, currentVersion |-> cur,
               latestVersion |-> latestVersion]
         ELSE [versionChanged |-> TRUE, shouldCreateRelease |-> TRUE,
               newTagName |-> newTagName, currentVersion |-> cur,
               latestVersion |-> latestVersion]

\* The unchanged branch still lets the release be created when no tag collides.
determineReleaseDecisionReleaseUnchanged(cur, latest, prefix, exists) ==
    LET newTagName == buildTagName(prefix, cur) IN
    IF Falsy(latest)
    THEN [versionChanged |-> TRUE, shouldCreateRelease |-> TRUE,
          newTagName |-> newTagName, currentVersion |-> cur]
    ELSE LET latestVersion == extractVersionFromTag(latest[1], prefix) IN
         IF cur = latestVersion
         THEN [versionChanged |-> FALSE, shouldCreateRelease |-> ~exists,
               newTagName |-> newTagName, currentVersion |-> cur,
               latestVersion |-> latestVersion]
         ELSE IF exists
         THEN [versionChanged |-> TRUE, shouldCreateRelease |-> FALSE,
               newTagName |-> newTagName, currentVersion |-> cur,
               latestVersion |-> latestVersion]
         ELSE [versionChanged |-> TRUE, shouldCreateRelease |-> TRUE,
               newTagName |-> newTagName, currentVersion |-> cur,
               latestVersion |-> latestVersion]

\* The tag collision is tested before the first-release branch.
determineReleaseDecisionExistsFirst(cur, latest, prefix, exists) ==
    LET newTagName == buildTagName(prefix, cur) IN
    IF Falsy(latest)
    THEN [versionChanged |-> TRUE, shouldCreateRelease |-> ~exists,
          newTagName |-> newTagName, currentVersion |-> cur]
    ELSE LET latestVersion == extractVersionFromTag(latest[1], prefix) IN
         IF cur = latestVersion
         THEN [versionChanged |-> FALSE, shouldCreateRelease |-> FALSE,
               newTagName |-> newTagName, currentVersion |-> cur,
               latestVersion |-> latestVersion]
         ELSE IF exists
         THEN [versionChanged |-> TRUE, shouldCreateRelease |-> FALSE,
               newTagName |-> newTagName, currentVersion |-> cur,
               latestVersion |-> latestVersion]
         ELSE [versionChanged |-> TRUE, shouldCreateRelease |-> TRUE,
               newTagName |-> newTagName, currentVersion |-> cur,
               latestVersion |-> latestVersion]

\* The tag collision is not tested at all.
determineReleaseDecisionIgnoresExists(cur, latest, prefix, exists) ==
    LET newTagName == buildTagName(prefix, cur) IN
    IF Falsy(latest)
    THEN [versionChanged |-> TRUE, shouldCreateRelease |-> TRUE,
          newTagName |-> newTagName, currentVersion |-> cur]
    ELSE LET latestVersion == extractVersionFromTag(latest[1], prefix) IN
         IF cur = latestVersion
         THEN [versionChanged |-> FALSE, shouldCreateRelease |-> FALSE,
               newTagName |-> newTagName, currentVersion |-> cur,
               latestVersion |-> latestVersion]
         ELSE [versionChanged |-> TRUE, shouldCreateRelease |-> TRUE,
               newTagName |-> newTagName, currentVersion |-> cur,
               latestVersion |-> latestVersion]

\* A record without the field latestVersion is a decision whose latestVersion
\* is undefined.
determineReleaseDecision(cur, latest, prefix, exists) ==
    LET newTagName == buildTagName(prefix, cur) IN
    IF Falsy(latest)
    THEN [versionChanged |-> TRUE, shouldCreateRelease |-> TRUE,
          newTagName |-> newTagName, currentVersion |-> cur]
    ELSE LET latestVersion == extractVersionFromTag(latest[1], prefix) IN
         IF cur = latestVersion
         THEN [versionChanged |-> FALSE, shouldCreateRelease |-> FALSE,
               newTagName |-> newTagName, currentVersion |-> cur,
               latestVersion |-> latestVersion]
         ELSE IF exists
         THEN [versionChanged |-> TRUE, shouldCreateRelease |-> FALSE,
               newTagName |-> newTagName, currentVersion |-> cur,
               latestVersion |-> latestVersion]
         ELSE [versionChanged |-> TRUE, shouldCreateRelease |-> TRUE,
               newTagName |-> newTagName, currentVersion |-> cur,
               latestVersion |-> latestVersion]

--------------------------------------------------------------------------
(* index.ts: getChangelogWithFallback *)

\* `Release ${version}`
ReleaseOf(name) == <<"R", "e", "l", "e", "a", "s", "e", " ">> \o name

\* The default message also replaces a content of white space only.
getChangelogWithFallbackBlank(changelogContent, version) ==
    IF \A i \in 1..Len(changelogContent) : changelogContent[i] \in {" ", "\t", "\n"}
    THEN ReleaseOf(version)
    ELSE changelogContent

\* changelogContent || `Release ${version}`: the empty string is the only
\* falsy string.
getChangelogWithFallback(changelogContent, version) ==
    IF changelogContent = <<>> THEN ReleaseOf(version) ELSE changelogContent

--------------------------------------------------------------------------
(* parsers/package-json.parser: parsePackageJson *)

\* The manifest content is a sequence of JSON tokens (white space between
\* tokens left out). A string literal is written with its quotes.
StringTokens == {"\"version\"", "\"1.2.3\"", "\"\"", "\"name\"", "\" \""}
NumberTokens == {"0", "1"}

\* The string a string literal denotes.
StringValue(t) ==
    CASE t = "\"version\"" -> "version"
      [] t = "\"1.2.3\"" -> "1.2.3"
      [] t = "\"name\"" -> "name"
      [] t = "\"\"" -> ""
      [] t = "\" \"" -> " "

\* The number a number literal denotes.
NumberValue(t) == IF t = "0" THEN 0 ELSE 1

\* JavaScript values.
JsUndefined == [type |-> "undefined"]
JsNull == [type |-> "null"]
JsBoolean(b) == [type |-> "boolean", b |-> b]
JsNumber(n) == [type |-> "number", n |-> n]
JsString(str) == [type |-> "string", s |-> str]
JsObject(props) == [type |-> "object", props |-> props]
JsArray(items) == [type |-> "array", items |-> items]

\* The result of parsing a value that ends before token next, or a syntax error.
ParseOk(val, next) == [ok |-> TRUE, val |-> val, next |-> next]
ParseFail == [ok |-> FALSE]

\* The JSON grammar: value, object members, array elements.
RECURSIVE ParseValue(_, _), ParseMembers(_, _, _), ParseElements(_, _, _)

ParseValue(toks, i) ==
    IF i > Len(toks) THEN ParseFail
    ELSE LET t == toks[i] IN
         CASE t = "null" -> ParseOk(JsNull, i + 1)
           [] t = "true" -> ParseOk(JsBoolean(TRUE), i + 1)
           [] t = "false" -> ParseOk(JsBoolean(FALSE), i + 1)
           [] t \in NumberTokens -> ParseOk(JsNumber(NumberValue(t)), i + 1)
           [] t \in StringTokens -> ParseOk(JsString(StringValue(t)), i + 1)
           [] t = "{" ->
                IF i + 1 <= Len(toks) /\ toks[i + 1] = "}"
                THEN ParseOk(JsObject([k \in {} |-> JsUndefined]), i + 2)
                ELSE ParseMembers(toks, i + 1, [k \in {} |-> JsUndefined])
           [] t = "[" ->
                IF i + 1 <= Len(toks) /\ toks[i + 1] = "]"
                THEN ParseOk(JsArray(<<>>), i + 2)
                ELSE ParseElements(toks, i + 1, <<>>)
           [] OTHER -> ParseFail

\* A later member of the same name replaces the earlier one.
ParseMembers(toks, i, props) ==
    IF i + 1 > Len(toks) \/ toks[i] \notin StringTokens \/ toks[i + 1] # ":"
    THEN ParseFail
    ELSE LET v == ParseValue(toks, i + 2) IN
         IF ~v.ok \/ v.next > Len(toks) THEN ParseFail
         ELSE LET key == StringValue(toks[i])
                  props2 == [k \in DOMAIN props \cup {key} |->
                                IF k = key THEN v.val ELSE props[k]]
              IN  CASE toks[v.next] = "}" -> ParseOk(JsObject(props2), v.next + 1)
                    [] toks[v.next] = "," -> ParseMembers(toks, v.next + 1, props2)
                    [] OTHER -> ParseFail

ParseElements(toks, i, items) ==
    LET v == ParseValue(toks, i) IN
    IF ~v.ok \/ v.next > Len(toks) THEN ParseFail
    ELSE CASE toks[v.next] = "]" -> ParseOk(JsArray(Append(items, v.val)), v.next + 1)
           [] toks[v.next] = "," -> ParseElements(toks, v.next + 1, Append(items, v.val))
           [] OTHER -> ParseFail

\* JSON.parse: the text is one value and nothing else.
JSONparse(toks) ==
    LET r == ParseValue(toks, 1) IN
    IF r.ok /\ r.next = Len(toks) + 1 THEN r ELSE ParseFail

\* value.name: undefined unless value is an object with that member. Reading
\* a property of null is a TypeError, tested by the caller.
GetProperty(value, name) ==
    IF value.type = "object" /\ name \in DOMAIN value.props
    THEN value.props[name]
    ELSE JsUndefined

\* The values that || replaces by its right operand.
IsFalsy(value) ==
    \/ value.type \in {"undefined", "null"}
    \/ value.type = "boolean" /\ ~value.b
    \/ value.type = "number" /\ value.n = 0
    \/ value.type = "string" /\ value.s = ""

Return(value) == [kind |-> "return", value |-> value]
Throw(error) == [kind |-> "throw", error |-> error]

parsePackageJson(toks) ==
    LET parsed == JSONparse(toks) IN
    IF ~parsed.ok THEN Throw("SyntaxError")
    ELSE LET packageJson == parsed.val IN
         IF packageJson.type = "null" THEN Throw("TypeError")
         ELSE LET v == GetProperty(packageJson, "version") IN
              IF IsFalsy(v) THEN Return(JsString("")) ELSE Return(v)

--------------------------------------------------------------------------
(* utils: isBlank, replaceTabs, trimEmptyEdges *)

\* The characters String.prototype.trim removes that a changelog, a version
\* or the output of git can hold.
WhiteSpace == {" ", "\t", "\r", "\n"}

isBlankOnlyEmpty(value) == value = <<>>

\* !value || value.trim().length === 0
isBlank(value) == value = <<>> \/ \A i \in 1..Len(value) : value[i] \in WhiteSpace

RECURSIVE Repeat(_, _)
\* String.prototype.repeat
Repeat(str, n) == IF n = 0 THEN <<>> ELSE str \o Repeat(str, n - 1)

\* Only the first tab of the line is replaced.
RECURSIVE replaceTabsFirstOnly(_, _)
replaceTabsFirstOnly(line, tabSize) ==
    IF line = <<>> THEN <<>>
    ELSE IF Head(line) = "\t" THEN Repeat(<<" ">>, tabSize) \o Tail(line)
    ELSE <<Head(line)>> \o replaceTabsFirstOnly(Tail(line), tabSize)

RECURSIVE replaceTabs(_, _)
\* line.replace(/\t/g, ' '.repeat(tabSize))
replaceTabs(line, tabSize) ==
    IF line = <<>> THEN <<>>
    ELSE (IF Head(line) = "\t" THEN Repeat(<<" ">>, tabSize) ELSE <<Head(line)>>)
         \o replaceTabs(Tail(line), tabSize)

RECURSIVE ShiftBlank(_), PopBlank(_)
\* while (result.length > 0 && isBlank(result[0])) result.shift()
ShiftBlank(lines) ==
    IF Len(lines) > 0 /\ isBlank(lines[1]) THEN ShiftBlank(Tail(lines)) ELSE lines

\* while (result.length > 0 && isBlank(result[result.length - 1])) result.pop()
PopBlank(lines) ==
    IF Len(lines) > 0 /\ isBlank(lines[Len(lines)])
    THEN PopBlank(SubSeq(lines, 1, Len(lines) - 1))
    ELSE lines

\* The trailing blank lines are kept.
trimEmptyEdgesLeadingOnly(lines) == ShiftBlank(lines)

trimEmptyEdges(lines) == PopBlank(ShiftBlank(lines))

--------------------------------------------------------------------------
(* JavaScript: split, join, and the regular expressions of the parser *)

\* The index of the first sep in str, 0 when there is none.
IndexOf(str, sep) ==
    IF \E i \in 1..Len(str) : str[i] = sep
    THEN CHOOSE i \in 1..Len(str) :
            str[i] = sep /\ \A j \in 1..(i - 1) : str[j] # sep
    ELSE 0

RECURSIVE Split(_, _)
\* String.prototype.split on a one-character separator
Split(str, sep) ==
    LET i == IndexOf(str, sep) IN
    IF i = 0 THEN <<str>>
    ELSE <<SubSeq(str, 1, i - 1)>> \o Split(SubSeq(str, i + 1, Len(str)), sep)

RECURSIVE Join(_, _)
\* Array.prototype.join
Join(lines, sep) ==
    IF lines = <<>> THEN <<>>
    ELSE IF Len(lines) = 1 THEN lines[1]
    ELSE lines[1] \o sep \o Join(Tail(lines), sep)


\* No leading "v" is removed.
StripLeadingVKeeps(str) == str

\* version.replace(/^v/, '')
StripLeadingV(str) ==
    IF Len(str) > 0 /\ str[1] = "v" THEN Tail(str) ELSE str

RECURSIVE EscapeDots(_)
\* versionClean.replace(/\./g, '\\.')
EscapeDots(str) ==
    IF str = <<>> THEN <<>>
    ELSE (IF Head(str) = "." THEN <<"\\", ".">> ELSE <<Head(str)>>)
         \o EscapeDots(Tail(str))

\* A compiled pattern is a sequence of items: the assertion ^, or an atom (one
\* given character, or any character) with a quantifier "1", "?", "*" or "+".
Quantifiers == {"?", "*", "+"}
BeginItem == [kind |-> "begin"]
AtomItem(any, ch, q) == [kind |-> "atom", any |-> any, ch |-> ch, q |-> q]

RECURSIVE CompileFrom(_, _, _)
\* new RegExp(source) for the patterns the parser can build from a version of
\* letters, digits, ".", "-" and "+": ^, ., \c, plain characters, and the
\* quantifiers. A quantifier with nothing to repeat is a SyntaxError.
CompileFrom(source, i, items) ==
    IF i > Len(source) THEN [ok |-> TRUE, items |-> items]
    ELSE LET c == source[i] IN
         IF c = "^" THEN CompileFrom(source, i + 1, Append(items, BeginItem))
         ELSE IF c \in Quantifiers THEN [ok |-> FALSE]
         ELSE IF c = "\\" /\ i = Len(source) THEN [ok |-> FALSE]
         ELSE LET any == c = "."
                  ch == IF c = "\\" THEN source[i + 1] ELSE c
                  j == IF c = "\\" THEN i + 2 ELSE i + 1
                  q == IF j <= Len(source) /\ source[j] \in Quantifiers
                       THEN source[j] ELSE "1"
                  k == IF q = "1" THEN j ELSE j + 1
                  \* a ? after a quantifier makes it lazy: the same matches
                  l == IF q # "1" /\ k <= Len(source) /\ source[k] = "?"
                       THEN k + 1 ELSE k
              IN  CompileFrom(source, l, Append(items, AtomItem(any, ch, q)))

RegExp(source) == CompileFrom(source, 1, <<>>)

RECURSIVE MatchFrom(_, _, _, _)
\* Whether items k.. match a part of line that starts at character i.
MatchFrom(items, k, line, i) ==
    IF k > Len(items) THEN TRUE
    ELSE LET it == items[k]
             Fits(j) == /\ j <= Len(line)
                        /\ IF it.any THEN line[j] \notin {"\n", "\r"}
                                      ELSE line[j] = it.ch
             Run(n) == (\A j \in i..(i + n - 1) : Fits(j))
                        /\ MatchFrom(items, k + 1, line, i + n)
         IN  IF it.kind = "begin" THEN i = 1 /\ MatchFrom(items, k + 1, line, i)
             ELSE CASE it.q = "1" -> Run(1)
                    [] it.q = "?" -> Run(1) \/ Run(0)
                    [] it.q = "*" -> \E n \in 0..(Len(line) - i + 1) : Run(n)
                    [] it.q = "+" -> \E n \in 1..(Len(line) - i + 1) : Run(n)

\* RegExp.prototype.test: a match may start at any character.
Test(regex, line) ==
    \E i \in 1..(Len(line) + 1) : MatchFrom(regex.items, 1, line, i)

\* Array.prototype.findIndex, given the callback's result on each element:
\* the index of the first element it accepts, 0 when there is none (findIndex
\* returns -1).
FindIndex(accepted) ==
    IF \E i \in 1..Len(accepted) : accepted[i]
    THEN CHOOSE i \in 1..Len(accepted) :
            accepted[i] /\ \A j \in 1..(i - 1) : ~accepted[j]
    ELSE 0

--------------------------------------------------------------------------
(* parsers/changelog.parser: parseChangelogContent *)

\* replaceTabs(line, 4)
TabSize == 4

\* '## '
HeaderMarker == <<"#", "#", " ">>

\* `^## .*\\[?${versionEscaped}\\]?`
HeaderSource(versionEscaped) ==
    <<"^">> \o HeaderMarker \o <<".", "*", "\\", "[", "?">> \o versionEscaped
    \o <<"\\", "]", "?">>


\* The section ends at a heading of any level.
SectionLinesAnyHeading(lines, startLineIndex) ==
    LET nextHeaderIndex ==
            FindIndex([idx \in 1..Len(lines) |->
                         idx > startLineIndex /\ StartsWith(lines[idx], <<"#", "#">>)])
    IN  IF nextHeaderIndex = 0
        THEN SubSeq(lines, startLineIndex + 1, Len(lines))
        ELSE SubSeq(lines, startLineIndex + 1, nextHeaderIndex - 1)

\* The lines of the section that starts after line startLineIndex.
SectionLines(lines, startLineIndex) ==
    LET nextHeaderIndex ==
            FindIndex([idx \in 1..Len(lines) |->
                         idx > startLineIndex /\ StartsWith(lines[idx], HeaderMarker)])
    IN  IF nextHeaderIndex = 0
        THEN SubSeq(lines, startLineIndex + 1, Len(lines))
        ELSE SubSeq(lines, startLineIndex + 1, nextHeaderIndex - 1)

\* new RegExp(`^## .*\\[?${versionEscaped}\\]?`) for the requested version
HeaderRegex(version) ==
    LET versionClean == StripLeadingV(version)
        versionEscaped == EscapeDots(versionClean)
    IN  RegExp(HeaderSource(versionEscaped))

\* lines.findIndex((line) => headerRegex.test(line)), 0 for -1
StartLineIndex(lines, headerRegex) ==
    FindIndex([idx \in 1..Len(lines) |-> Test(headerRegex, lines[idx])])

parseChangelogContent(text, version) ==
    LET lines == Split(text, "\n")
        headerRegex == HeaderRegex(version)
    IN  IF ~headerRegex.ok THEN Throw("SyntaxError")
        ELSE LET startLineIndex == StartLineIndex(lines, headerRegex) IN
             IF startLineIndex = 0 THEN Return(<<>>)
             ELSE LET changelogContent ==
                          trimEmptyEdges(SectionLines(lines, startLineIndex))
                  IN  Return(Join([i \in 1..Len(changelogContent) |->
                                     replaceTabs(changelogContent[i], TabSize)],
                                  <<"\n">>))

--------------------------------------------------------------------------
(* Messages, errors and calls of the run *)

\* A template literal: a fixed text followed by the value put into it.
Message(text, arg) == [text |-> text, arg |-> arg]

\* new Error(message), and a thrown value that is not an Error.
Error(message) == [isError |-> TRUE, message |-> message]
NotAnError == [isError |-> FALSE, message |-> Message("", <<>>)]

\* A call made to the file system, to git or to the GitHub API: what is
\* called, on what, with what message, and how it ended.
Call(op, arg, detail, outcome) ==
    [op |-> op, arg |-> arg, detail |-> detail, outcome |-> outcome]

\* value || fallback for a string
OrDefault(value, fallback) == IF value = <<>> THEN fallback ELSE value

\* Boolean.prototype.toString
BooleanToString(b) == IF b THEN <<"true">> ELSE <<"false">>

Digit(d) ==
    CASE d = 0 -> "0" [] d = 1 -> "1" [] d = 2 -> "2" [] d = 3 -> "3" [] d = 4 -> "4"
      [] d = 5 -> "5" [] d = 6 -> "6" [] d = 7 -> "7" [] d = 8 -> "8" [] d = 9 -> "9"

RECURSIVE NumberToString(_)
\* Number.prototype.toString of a natural number
NumberToString(n) ==
    IF n < 10 THEN <<Digit(n)>>
    ELSE NumberToString(n \div 10) \o <<Digit(n % 10)>>

RECURSIVE TrimStart(_), TrimEnd(_)
TrimStart(str) ==
    IF Len(str) > 0 /\ str[1] \in WhiteSpace THEN TrimStart(Tail(str)) ELSE str
TrimEnd(str) ==
    IF Len(str) > 0 /\ str[Len(str)] \in WhiteSpace
    THEN TrimEnd(SubSeq(str, 1, Len(str) - 1))
    ELSE str

\* String.prototype.trim
Trim(str) == TrimEnd(TrimStart(str))

--------------------------------------------------------------------------
(* services/file.service: FileService *)

\* A path of the disk: no file, a file that cannot be read, a file.
Absent == [state |-> "absent", content |-> <<>>]
Unreadable == [state |-> "unreadable", content |-> <<>>]
File(content) == [state |-> "file", content |-> content]

fileExists(file) == file.state # "absent"

readFile(file, path) ==
    IF file.state = "file" THEN Return(file.content)
    ELSE Throw(Error(Message("IOError: ", path)))

--------------------------------------------------------------------------
(* index.ts: parseInputs, getCurrentVersion, extractChangelog *)

\* core.getInput(name, { required: true }) throws when the input is empty.
parseInputs(in) ==
    IF in.githubToken = <<>>
    THEN Throw(Error(Message("Input required and not supplied: ", <<"github-token">>)))
    ELSE Return([githubToken |-> in.githubToken,
                 packageJsonPath |-> OrDefault(in.packageJsonPath, <<"package.json">>),
                 changelogPath |-> OrDefault(in.changelogPath, <<"CHANGELOG.md">>),
                 tagPrefix |-> OrDefault(in.tagPrefix, <<"v">>),
                 createDraft |-> in.createDraft = <<"true">>,
                 createPrerelease |-> in.createPrerelease = <<"true">>])

\* The characters of the string a string literal of the manifest denotes.
Characters(str) ==
    CASE str = "1.2.3" -> <<"1", ".", "2", ".", "3">>
      [] str = "version" -> <<"v", "e", "r", "s", "i", "o", "n">>
      [] str = "name" -> <<"n", "a", "m", "e">>
      [] str = " " -> <<" ">>
      [] str = "" -> <<>>

\* The calls getCurrentVersion makes to the file service.
getCurrentVersionCalls(file, path) ==
    <<Call("fileExists", path, <<>>, BooleanToString(fileExists(file))[1])>>
    \o (IF fileExists(file)
        THEN <<Call("readFile", path, <<>>, readFile(file, path).kind)>>
        ELSE <<>>)

\* isBlank(value) of a value that is not a string: !value is false for every
\* value parsePackageJson returns but '', and value.trim is not a function.
getCurrentVersion(file, path) ==
    IF ~fileExists(file)
    THEN Throw(Error(Message("package.json not found at: ", path)))
    ELSE LET content == readFile(file, path) IN
         IF content.kind = "throw" THEN content
         ELSE LET parsed == parsePackageJson(content.value) IN
              IF parsed.kind = "throw" THEN Throw(Error(Message(parsed.error, <<>>)))
              ELSE IF parsed.value.type # "string"
              THEN Throw(Error(Message("TypeError", <<>>)))
              ELSE LET version == Characters(parsed.value.s) IN
                   IF isBlank(version)
                   THEN Throw(Error(Message("No version found in package.json", <<>>)))
                   ELSE Return(version)

\* The calls extractChangelog makes to the file service.
extractChangelogCalls(file, path) ==
    <<Call("fileExists", path, <<>>, BooleanToString(fileExists(file))[1])>>
    \o (IF fileExists(file)
        THEN <<Call("readFile", path, <<>>, readFile(file, path).kind)>>
        ELSE <<>>)

extractChangelog(file, path, version) ==
    IF ~fileExists(file) THEN Return(<<>>)
    ELSE LET changelogFileContent == readFile(file, path) IN
         IF changelogFileContent.kind = "throw" THEN changelogFileContent
         ELSE LET parsed == parseChangelogContent(changelogFileContent.value, version) IN
              IF parsed.kind = "throw" THEN Throw(Error(Message(parsed.error, <<>>)))
              ELSE parsed

--------------------------------------------------------------------------
(* services/git.service: GitService; index.ts: createGitHubRelease *)

\* What exec does: the process ends with an exit code, or exec rejects
\* because the process could not be run.
Exited(code, stdout, stderr) ==
    [kind |-> "exited", code |-> code, stdout |-> stdout, stderr |-> stderr]
Rejected == [kind |-> "rejected", code |-> 0, stdout |-> <<>>, stderr |-> <<>>]

\* How a git command ended, as the calls record it.
ExitStatus(outcome) ==
    IF outcome.kind = "rejected" THEN "rejected"
    ELSE IF outcome.code = 0 THEN "exit 0" ELSE "exit nonzero"

ExecError == Error(Message("Unable to locate executable file: ", <<"git">>))
ExitCodeError == Error(Message("The process 'git' failed with exit code ", <<"128">>))

\* output.trim().split('\n').map((tag) => tag.trim()).filter((tag) => tag.length > 0)
parseGitTags(output) ==
    LET lines == Split(Trim(output), "\n")
        trimmed == [i \in 1..Len(lines) |-> Trim(lines[i])]
    IN  SelectSeq(trimmed, LAMBDA tag : Len(tag) > 0)

\* version module, parseGitTags:
\* output.trim().split('\n').filter((tag) => tag.length > 0)
versionParseGitTags(output) ==
    SelectSeq(Split(Trim(output), "\n"), LAMBDA tag : Len(tag) > 0)

\* The output of a failed git is parsed all the same.
getTagsKeepsOutput(prefix, outcome) ==
    IF outcome.kind = "rejected"
    THEN [result |-> Throw(ExecError), warnings |-> <<>>]
    ELSE IF outcome.code # 0
    THEN [result |-> Return(parseGitTags(outcome.stdout)),
          warnings |-> <<Message("git tag command failed: ", outcome.stderr)>>]
    ELSE [result |-> Return(parseGitTags(outcome.stdout)), warnings |-> <<>>]

\* getTags: the tags, and the warning logged when git exits with a failure.
getTags(prefix, outcome) ==
    IF outcome.kind = "rejected"
    THEN [result |-> Throw(ExecError), warnings |-> <<>>]
    ELSE IF outcome.code # 0
    THEN [result |-> Return(<<>>),
          warnings |-> <<Message("git tag command failed: ", outcome.stderr)>>]
    ELSE [result |-> Return(parseGitTags(outcome.stdout)), warnings |-> <<>>]

tagExists(tagName, outcome) ==
    IF outcome.kind = "rejected" THEN Throw(ExecError)
    ELSE Return(outcome.code = 0)

\* The four commands of createTag, all of them successful.
createTagCommands(tagName, message) ==
    << Call("git config user.name", <<"github-actions[bot]">>, <<>>, "exit 0"),
       Call("git config user.email",
            <<"github-actions[bot]@users.noreply.github.com">>, <<>>, "exit 0"),
       Call("git tag -a", tagName, message, "exit 0"),
       Call("git push origin", tagName, <<>>, "exit 0") >>


\* A failed command does not end createTag: the later commands are run and
\* the tag is logged as created.
createTagIgnoresFailure(tagName, message, failedAt) ==
    LET commands == createTagCommands(tagName, message) IN
    [calls |-> [i \in 1..Len(commands) |->
                   IF i = failedAt
                   THEN [commands[i] EXCEPT !.outcome = "exit nonzero"]
                   ELSE commands[i]],
     infos |-> <<Message("Created and pushed tag: ", tagName)>>,
     result |-> Return(<<>>)]

\* createTag when command failedAt fails (0: none does): exec rejects on a
\* failure, the later commands are not run and nothing is logged.
createTag(tagName, message, failedAt) ==
    LET commands == createTagCommands(tagName, message) IN
    IF failedAt = 0
    THEN [calls |-> commands,
          infos |-> <<Message("Created and pushed tag: ", tagName)>>,
          result |-> Return(<<>>)]
    ELSE [calls |-> [i \in 1..failedAt |->
                        IF i = failedAt
                        THEN [commands[i] EXCEPT !.outcome = "exit nonzero"]
                        ELSE commands[i]],
          infos |-> <<>>,
          result |-> Throw(ExitCodeError)]

\* What octokit.rest.repos.createRelease does: it resolves with the release,
\* or rejects with an error or with a value that is not an Error.
Resolved(id, html_url) ==
    [kind |-> "resolved", id |-> id, html_url |-> html_url, error |-> NotAnError]
RejectedWith(error) ==
    [kind |-> "rejected", id |-> 0, html_url |-> <<>>, error |-> error]


\* A rejected call is taken for a release.
createGitHubReleaseSwallows(params, response) ==
    Return([id |-> response.id, htmlUrl |-> response.html_url])

createGitHubRelease(params, response) ==
    IF response.kind = "rejected" THEN Throw(response.error)
    ELSE Return([id |-> response.id, htmlUrl |-> response.html_url])

--------------------------------------------------------------------------
(* The decision engine called once on inputs the program can hold *)

\* currentVersion is never blank (getCurrentVersion throws on a blank one) and
\* a tag of the tag list is never empty (parseGitTags drops empty lines).
Versions == Strings(TagChars, MaxVersionLen) \ {<<>>}
Prefixes == Strings({"v"}, MaxPrefixLen)
Tags == Strings(TagChars, MaxPrefixLen + MaxVersionLen) \ {<<>>}

DecideIdle ==
    /\ currentVersion = <<>>
    /\ latestTag = Null
    /\ tagPrefix = <<>>
    /\ tagAlreadyExists = FALSE
    /\ decision = NotYet

ManifestIdle ==
    /\ packageContent = <<>>
    /\ packageResult = NotYet

ChangelogIdle ==
    /\ argContent = <<>>
    /\ argVersion = <<>>
    /\ changelog = NotYet
    /\ inlineChangelog = NotYet

FallbackIdle ==
    /\ fallbackContent = <<>>
    /\ fallbackVersion = <<>>
    /\ fallbackResult = NotYet

RunIdle ==
    /\ pc = "idle"
    /\ inputs = NotYet
    /\ config = NotYet
    /\ releaseBody = Null
    /\ files = NotYet
    /\ calls = <<>>
    /\ outputs = <<>>
    /\ failures = <<>>
    /\ warnings = <<>>
    /\ infos = <<>>
    /\ release = Null
    /\ repository = [tags |-> {}, pushed |-> {}]
    /\ previousRuns = <<>>

GitTagsIdle ==
    /\ gitOutput = <<>>
    /\ gitTags = NotYet

InitDecide ==
    /\ currentVersion \in Versions
    /\ latestTag \in {Null} \cup {Some(t) : t \in Tags}
    /\ tagPrefix \in Prefixes
    /\ tagAlreadyExists \in BOOLEAN
    /\ decision = NotYet
    /\ ManifestIdle
    /\ ChangelogIdle
    /\ FallbackIdle
    /\ RunIdle
    /\ GitTagsIdle

Decide ==
    /\ "pending" \in DOMAIN decision
    /\ decision' = determineReleaseDecision(currentVersion, latestTag, tagPrefix,
                                            tagAlreadyExists)
    /\ UNCHANGED <<currentVersion, latestTag, tagPrefix, tagAlreadyExists>>
    /\ UNCHANGED <<manifestVars, changelogVars, fallbackVars, runVars, gitTagsVars>>

NextDecide == Decide

SpecDecide == InitDecide /\ [][NextDecide]_vars

Decided == "versionChanged" \in DOMAIN decision

--------------------------------------------------------------------------
(* The manifest parser called once on a manifest content *)

\* The tokens of the enumerated contents, and longer contents of the tests.
ManifestTokens ==
    {"{", "}", ":", ",", "null", "0", "1", "\"version\"", "\"1.2.3\"", "\"\""}

TestManifests ==
    { <<"{", "\"name\"", ":", "\"\"", ",", "\"version\"", ":", "\"1.2.3\"", "}">>,
      <<"{", "\"name\"", ":", "\"1.2.3\"", ",", "\"name\"", ":", "\"\"", "}">>,
      <<"{", "\"version\"", ":", "\"\"", ",", "\"version\"", ":", "\"1.2.3\"", "}">>,
      <<"{", "\"version\"", ":", "[", "]", "}">>,
      <<"[", "\"version\"", ",", "\"1.2.3\"", "]">>,
      <<"{", "\"version\"", ":", "false", "}">>,
      <<"{", "\"version\"", ":", "true", "}">>,
      <<"{", "\"name\"", ":", "{", "\"version\"", ":", "\"1.2.3\"", "}", "}">> }

InitManifest ==
    /\ packageContent \in Strings(ManifestTokens, MaxTokens) \cup TestManifests
    /\ packageResult = NotYet
    /\ DecideIdle
    /\ ChangelogIdle
    /\ FallbackIdle
    /\ RunIdle
    /\ GitTagsIdle

ParseManifest ==
    /\ "pending" \in DOMAIN packageResult
    /\ packageResult' = parsePackageJson(packageContent)
    /\ UNCHANGED packageContent
    /\ UNCHANGED <<decideVars, changelogVars, fallbackVars, runVars, gitTagsVars>>

NextManifest == ParseManifest

SpecManifest == InitManifest /\ [][NextManifest]_vars

ManifestParsed == "kind" \in DOMAIN packageResult

--------------------------------------------------------------------------
(* changelog.ts: parseChangelogContent, written without the helpers *)

RECURSIVE ShiftBlankLines(_)
\* while (changelogContent.length > 0 && !changelogContent[0].trim()) shift()
ShiftBlankLines(lines) ==
    IF Len(lines) > 0 /\ Trim(lines[1]) = <<>>
    THEN ShiftBlankLines(Tail(lines)) ELSE lines

RECURSIVE PopBlankLines(_)
\* while (changelogContent.length > 0 && !changelogContent[length - 1].trim()) pop()
PopBlankLines(lines) ==
    IF Len(lines) > 0 /\ Trim(lines[Len(lines)]) = <<>>
    THEN PopBlankLines(SubSeq(lines, 1, Len(lines) - 1)) ELSE lines

RECURSIVE TabsToSpaces(_)
\* line.replace(/\t/g, '    ')
TabsToSpaces(line) ==
    IF line = <<>> THEN <<>>
    ELSE (IF Head(line) = "\t" THEN <<" ", " ", " ", " ">> ELSE <<Head(line)>>)
         \o TabsToSpaces(Tail(line))

inlineParseChangelogContent(text, version) ==
    LET lines == Split(text, "\n")
        versionClean == StripLeadingV(version)
        versionEscaped == EscapeDots(versionClean)
        headerRegex == RegExp(HeaderSource(versionEscaped))
    IN  IF ~headerRegex.ok THEN Throw("SyntaxError")
        ELSE LET startLineIndex ==
                     FindIndex([idx \in 1..Len(lines) |-> Test(headerRegex, lines[idx])])
             IN
             IF startLineIndex = 0 THEN Return(<<>>)
             ELSE LET nextHeaderIndex ==
                          FindIndex([idx \in 1..Len(lines) |->
                                       idx > startLineIndex
                                       /\ StartsWith(lines[idx], <<"#", "#", " ">>)])
                      sliced ==
                          IF nextHeaderIndex = 0
                          THEN SubSeq(lines, startLineIndex + 1, Len(lines))
                          ELSE SubSeq(lines, startLineIndex + 1, nextHeaderIndex - 1)
                      changelogContent == PopBlankLines(ShiftBlankLines(sliced))
                  IN  Return(Join([i \in 1..Len(changelogContent) |->
                                     TabsToSpaces(changelogContent[i])],
                                  <<"\n">>))

--------------------------------------------------------------------------
(* The changelog parser called once on a changelog and a version *)

\* The versions of the changelogs: plain, with a prerelease suffix, with build
\* metadata, and one that holds another as a part.
V10 == <<"1", ".", "0">>
V20 == <<"2", ".", "0">>
V110 == <<"1", "1", ".", "0">>
V10pre == <<"1", ".", "0", "-", "b">>
V10build == <<"1", ".", "0", "+", "b">>

\* The date of a heading.
Date == <<"2", "5">>

\* The heading styles: "## [V] - DATE", "## V - DATE", "## [V]", "## V".
HeadingStyles == {"bracket-date", "plain-date", "bracket", "plain"}

Heading(style, v) ==
    CASE style = "bracket-date" ->
            HeaderMarker \o <<"[">> \o v \o <<"]", " ", "-", " ">> \o Date
      [] style = "plain-date" -> HeaderMarker \o v \o <<" ", "-", " ">> \o Date
      [] style = "bracket" -> HeaderMarker \o <<"[">> \o v \o <<"]">>
      [] style = "plain" -> HeaderMarker \o v

\* The lines under a heading: empty, of white space only, with a tab, and a
\* level-3 heading.
BodyLines == { <<>>, <<" ">>, <<"\t", "a">>, <<"#", "#", "#", " ", "b">> }

BothBracketStyles == {"bracket", "plain"}

\* A requested version with the two versions the changelog has headings for,
\* and the styles of those headings.
Requests ==
    { [version |-> V10, a |-> V10, b |-> V20, styles |-> HeadingStyles],
      [version |-> V20, a |-> V10, b |-> V20, styles |-> BothBracketStyles],
      [version |-> <<"v">> \o V10, a |-> V10, b |-> V20, styles |-> BothBracketStyles],
      [version |-> V10build, a |-> V10build, b |-> V20, styles |-> HeadingStyles],
      [version |-> V10pre, a |-> V10pre, b |-> V10, styles |-> HeadingStyles],
      [version |-> V10, a |-> V10pre, b |-> V10, styles |-> BothBracketStyles],
      [version |-> V10, a |-> V110, b |-> V10, styles |-> BothBracketStyles],
      [version |-> V110, a |-> V110, b |-> V10, styles |-> BothBracketStyles] }

\* The changelogs of at most MaxLines lines: headings of one style for two
\* versions, and body lines, in any order.
Changelogs(style, a, b) ==
    LET pool == {Heading(style, a), Heading(style, b)} \cup BodyLines IN
    {Join(doc, <<"\n">>) : doc \in Strings(pool, MaxLines)}

InitChangelog ==
    /\ \E r \in Requests : \E style \in r.styles :
          /\ argVersion = r.version
          /\ argContent \in Changelogs(style, r.a, r.b)
    /\ changelog = NotYet
    /\ inlineChangelog = NotYet
    /\ DecideIdle
    /\ ManifestIdle
    /\ FallbackIdle
    /\ RunIdle
    /\ GitTagsIdle

ParseChangelog ==
    /\ "pending" \in DOMAIN changelog
    /\ changelog' = parseChangelogContent(argContent, argVersion)
    /\ inlineChangelog' = inlineParseChangelogContent(argContent, argVersion)
    /\ UNCHANGED <<argContent, argVersion>>
    /\ UNCHANGED <<decideVars, manifestVars, fallbackVars, runVars, gitTagsVars>>

NextChangelog == ParseChangelog

SpecChangelog == InitChangelog /\ [][NextChangelog]_vars

ChangelogParsed == "kind" \in DOMAIN changelog

--------------------------------------------------------------------------
(* parseGitTags called once on an output of git tag -l *)

\* Longest output handed to parseGitTags.
MaxOutputLen == 4

\* The characters of the outputs: white space of two kinds and those of a tag.
OutputChars == {" ", "\n", "v", "1"}

InitGitTags ==
    /\ gitOutput \in Strings(OutputChars, MaxOutputLen)
    /\ gitTags = NotYet
    /\ DecideIdle
    /\ ManifestIdle
    /\ ChangelogIdle
    /\ FallbackIdle
    /\ RunIdle

\* The output is parsed by the function of the version module and by the
\* method of GitService.
ParseGitTags ==
    /\ "pending" \in DOMAIN gitTags
    /\ gitTags' = [version |-> versionParseGitTags(gitOutput),
                   service |-> parseGitTags(gitOutput)]
    /\ UNCHANGED gitOutput
    /\ UNCHANGED <<decideVars, manifestVars, changelogVars, fallbackVars, runVars>>

NextGitTags == ParseGitTags

SpecGitTags == InitGitTags /\ [][NextGitTags]_vars

GitTagsParsed == "version" \in DOMAIN gitTags

--------------------------------------------------------------------------
(* The changelog fallback called once on a content and a version *)

\* Longest content handed to getChangelogWithFallback.
MaxContentLen == 3
MaxRuns == 2

\* The characters of the contents: white space of three kinds and a letter.
ContentChars == {" ", "\t", "\n", "a"}

InitFallback ==
    /\ fallbackContent \in Strings(ContentChars, MaxContentLen)
    /\ fallbackVersion \in {V10, V10pre, <<>>}
    /\ fallbackResult = NotYet
    /\ DecideIdle
    /\ ManifestIdle
    /\ ChangelogIdle
    /\ RunIdle
    /\ GitTagsIdle

Fallback ==
    /\ "pending" \in DOMAIN fallbackResult
    /\ fallbackResult' =
          Return(getChangelogWithFallback(fallbackContent, fallbackVersion))
    /\ UNCHANGED <<fallbackContent, fallbackVersion>>
    /\ UNCHANGED <<decideVars, manifestVars, changelogVars, runVars, gitTagsVars>>

NextFallback == Fallback

SpecFallback == InitFallback /\ [][NextFallback]_vars

FallbackCalled == "kind" \in DOMAIN fallbackResult

--------------------------------------------------------------------------
(* index.ts: run, step by step *)

\* The tag is created before the changelog is read.
NextStepTagFirst(step, shouldCreateRelease) ==
    CASE step = "start" -> "getTags"
      [] step = "getTags" -> "tagExists"
      [] step = "tagExists" -> "decide"
      [] step = "decide" -> IF shouldCreateRelease THEN "createTag" ELSE "done"
      [] step = "createTag" -> "changelog"
      [] step = "changelog" -> "createRelease"
      [] step = "createRelease" -> "done"

\* The run does not end when the decision is not to create a release.
NextStepAlwaysCreates(step, shouldCreateRelease) ==
    CASE step = "start" -> "getTags"
      [] step = "getTags" -> "tagExists"
      [] step = "tagExists" -> "decide"
      [] step = "decide" -> "changelog"
      [] step = "changelog" -> "createTag"
      [] step = "createTag" -> "createRelease"
      [] step = "createRelease" -> "done"

\* The statements of run in the order they are written: the step that follows
\* a step that did not throw. Only the decision can end the run early.
NextStep(step, shouldCreateRelease) ==
    CASE step = "start" -> "getTags"
      [] step = "getTags" -> "tagExists"
      [] step = "tagExists" -> "decide"
      [] step = "decide" -> IF shouldCreateRelease THEN "changelog" ELSE "done"
      [] step = "changelog" -> "createTag"
      [] step = "createTag" -> "createRelease"
      [] step = "createRelease" -> "done"

\* catch (error): the message handed to core.setFailed.
FailureMessage(error) ==
    IF error.isError THEN error.message
    ELSE Message("An unknown error occurred", <<>>)

\* Nothing is reported when the value thrown is not an Error.
CaughtErrorsOnly(result) ==
    IF result.kind = "throw" /\ result.error.isError
    THEN <<FailureMessage(result.error)>> ELSE <<>>

\* The setFailed calls and the step that follow a step's result.
Caught(result) ==
    IF result.kind = "throw" THEN <<FailureMessage(result.error)>> ELSE <<>>
StepAfter(result, next) == IF result.kind = "throw" THEN "failed" ELSE next

\* core.setOutput(name, value)
Output(name, value) == [name |-> name, value |-> value]

\* The lines logged before the manifest is read.
startInfos(cfg) ==
    << Message("Starting Auto Release Action...", <<>>),
       Message("Package.json path: ", cfg.packageJsonPath),
       Message("Changelog path: ", cfg.changelogPath),
       Message("Tag prefix: ", cfg.tagPrefix) >>

\* The lines logged about the decision: isBlank(latestTag) of a string | null.
decisionInfos(latest, dec, exists, cur) ==
    IF latest = Null \/ isBlank(latest[1])
    THEN <<Message("No previous tags found, this will be the first release!", <<>>)>>
    ELSE LET latestVersionDisplay ==
                 IF "latestVersion" \in DOMAIN dec /\ dec.latestVersion # <<>>
                 THEN dec.latestVersion ELSE latest[1]
         IN  <<Message("Latest tagged version: ", latestVersionDisplay)>>
             \o (IF dec.versionChanged
                 THEN <<Message("Version changed from ",
                                latestVersionDisplay \o <<" to ">> \o cur)>>
                 ELSE <<Message("Version unchanged, no release needed.", <<>>)>>)

\* The warning is logged only when the version is unchanged.
decisionWarningsUnchanged(latest, dec, exists, newTagName) ==
    IF latest = Null \/ isBlank(latest[1]) THEN <<>>
    ELSE IF ~dec.versionChanged /\ exists
    THEN <<Message("Tag ", newTagName \o <<" already exists. Skipping release.">>)>>
    ELSE <<>>

\* The warning logged about the decision.
decisionWarnings(latest, dec, exists, newTagName) ==
    IF latest = Null \/ isBlank(latest[1]) THEN <<>>
    ELSE IF dec.versionChanged /\ exists
    THEN <<Message("Tag ", newTagName \o <<" already exists. Skipping release.">>)>>
    ELSE <<>>

\* The outputs set once the decision is known.
decisionOutputs(dec, cur) ==
    << Output("version-changed", BooleanToString(dec.versionChanged)),
       Output("version", cur) >>


\* The warnings are logged only when the changelog file does not exist.
changelogWarningsFileOnly(rawChangelogContent, file, path, cur) ==
    IF isBlank(rawChangelogContent) /\ ~fileExists(file)
    THEN << Message("CHANGELOG.md not found at ", path),
            Message("No changelog content found, using default message", <<>>) >>
    ELSE <<>>

\* The warnings logged when no changelog content was extracted.
changelogWarnings(rawChangelogContent, file, path, cur) ==
    IF isBlank(rawChangelogContent)
    THEN (IF fileExists(file)
          THEN <<Message("Version ", StripLeadingV(cur) \o <<" not found in ">> \o path)>>
          ELSE <<Message("CHANGELOG.md not found at ", path)>>)
         \o <<Message("No changelog content found, using default message", <<>>)>>
    ELSE <<>>

\* The tag name is not put into the outputs.
releaseOutputsNoTagName(releaseResult, newTagName) ==
    << Output("release-created", <<"true">>),
       Output("release-id", NumberToString(releaseResult.id)),
       Output("release-url", releaseResult.htmlUrl) >>

\* The outputs set once the release is created.
releaseOutputs(releaseResult, newTagName) ==
    << Output("release-created", <<"true">>),
       Output("release-id", NumberToString(releaseResult.id)),
       Output("release-url", releaseResult.htmlUrl),
       Output("tag-name", newTagName) >>

--------------------------------------------------------------------------
(* A run of the action on the inputs, the files and the repository it finds *)

\* The inputs of the action: the defaults, every input set, no token.
ActionInputs ==
    { [githubToken |-> <<"test-token">>, packageJsonPath |-> <<>>,
       changelogPath |-> <<>>, tagPrefix |-> <<>>, createDraft |-> <<>>,
       createPrerelease |-> <<>>],
      [githubToken |-> <<"custom-token">>,
       packageJsonPath |-> <<"custom/package.json">>,
       changelogPath |-> <<"docs/CHANGELOG.md">>, tagPrefix |-> <<"r">>,
       createDraft |-> <<"true">>, createPrerelease |-> <<"true">>],
      [githubToken |-> <<>>, packageJsonPath |-> <<>>,
       changelogPath |-> <<>>, tagPrefix |-> <<>>, createDraft |-> <<>>,
       createPrerelease |-> <<>>] }

\* The versions of the runs: that of the manifest, an earlier one, and one
\* that holds the manifest's as a part.
V123 == <<"1", ".", "2", ".", "3">>
V122 == <<"1", ".", "2", ".", "2">>
V1123 == <<"1", "1", ".", "2", ".", "3">>

\* The manifest: missing, unreadable, with a version, with an empty, a blank,
\* a numeric or no version, the JSON text null, and an invalid JSON text.
ManifestFiles ==
    { Absent, Unreadable,
      File(<<"{", "\"version\"", ":", "\"1.2.3\"", "}">>),
      File(<<"{", "\"version\"", ":", "\"\"", "}">>),
      File(<<"{", "\"version\"", ":", "\" \"", "}">>),
      File(<<"{", "\"version\"", ":", "1", "}">>),
      File(<<"{", "\"name\"", ":", "\"1.2.3\"", "}">>),
      File(<<"null">>),
      File(<<"{">>) }

\* The changelog: missing, unreadable, with a section for the manifest's
\* version, with a section for an earlier version only, with a section for a
\* version that holds the manifest's as a part, empty, with a section of
\* blank lines for the manifest's version, and with a section that reads as
\* the default message does.
ChangelogFiles ==
    { Absent, Unreadable,
      File(Join(<<Heading("bracket-date", V123), <<>>, <<"\t", "a">>, <<>>,
                  Heading("bracket", V122), <<"b">>>>, <<"\n">>)),
      File(Join(<<Heading("bracket", V122), <<"b">>>>, <<"\n">>)),
      File(Join(<<Heading("bracket", V1123), <<"b">>>>, <<"\n">>)),
      File(<<>>),
      File(Join(<<Heading("plain", V123), <<" ">>, <<>>>>, <<"\n">>)),
      File(Join(<<Heading("plain", V123), ReleaseOf(V123)>>, <<"\n">>)) }

\* The repositories the action is run on: the tags they hold, all of them
\* pushed. A tag of an earlier version, the tag of the manifest's version,
\* and a tag of a later version.
Repositories ==
    { [tags |-> tags, pushed |-> tags] :
        tags \in SUBSET {<<"v">> \o V122, <<"v">> \o V123, <<"v">> \o V1123} }

\* The numbers of a tag name, which --sort=-v:refname orders the tags by.
RECURSIVE VersionNumbers(_, _, _)
VersionNumbers(str, number, inNumber) ==
    LET ended == IF inNumber THEN <<number>> ELSE <<>> IN
    IF str = <<>> THEN ended
    ELSE IF \E d \in 0..9 : Digit(d) = Head(str)
    THEN VersionNumbers(Tail(str),
                        10 * number + (CHOOSE d \in 0..9 : Digit(d) = Head(str)), TRUE)
    ELSE ended \o VersionNumbers(Tail(str), 0, FALSE)

RECURSIVE NumbersBefore(_, _)
NumbersBefore(a, b) ==
    IF b = <<>> THEN FALSE
    ELSE IF a = <<>> THEN TRUE
    ELSE IF Head(a) # Head(b) THEN Head(a) < Head(b)
    ELSE NumbersBefore(Tail(a), Tail(b))

\* What git tag -l <prefix>* --sort=-v:refname prints: the tags that begin
\* with the prefix, the highest version first, one on a line.
TagListing(tags, prefix) ==
    LET matching == {tag \in tags : StartsWith(tag, prefix)}
        sorted == CHOOSE seq \in [1..Cardinality(matching) -> matching] :
                      /\ \A i, j \in DOMAIN seq : i # j => seq[i] # seq[j]
                      /\ \A i, j \in DOMAIN seq :
                            i < j => ~NumbersBefore(VersionNumbers(seq[i], 0, FALSE),
                                                    VersionNumbers(seq[j], 0, FALSE))
    IN  Join([i \in DOMAIN sorted |-> sorted[i] \o <<"\n">>], <<>>)

\* What git tag -l does: git cannot be run, it fails, or it prints the tags.
GitFailed == 128
TagListOutcomes(tags, prefix) ==
    { Rejected,
      Exited(GitFailed, <<>>, <<"fatal">>),
      Exited(GitFailed, TagListing(tags, prefix), <<"fatal">>),
      Exited(0, TagListing(tags, prefix), <<>>) }

\* What git rev-parse does: it cannot fail to resolve a tag the repository
\* holds, and it resolves a name that is another revision's as well.
RevParseOutcomes(tags, tagName) ==
    {Rejected, Exited(0, <<>>, <<>>)}
    \cup (IF tagName \in tags THEN {} ELSE {Exited(GitFailed, <<>>, <<"fatal">>)})

\* What the GitHub API answers.
ReleaseId == 42
ReleaseResponses ==
    { Resolved(ReleaseId, <<"https://github.com/owner/repo/releases/42">>),
      RejectedWith(Error(Message("Validation Failed", <<>>))),
      RejectedWith(NotAnError) }

InitRun ==
    /\ pc = "start"
    /\ inputs \in ActionInputs
    /\ config = NotYet
    /\ files \in [manifest : ManifestFiles, changelog : ChangelogFiles]
    /\ releaseBody = Null
    /\ calls = <<>>
    /\ outputs = <<>>
    /\ failures = <<>>
    /\ warnings = <<>>
    /\ infos = <<>>
    /\ release = Null
    /\ repository \in Repositories
    /\ previousRuns = <<>>
    /\ DecideIdle
    /\ ManifestIdle
    /\ ChangelogIdle
    /\ FallbackIdle
    /\ GitTagsIdle

\* Lines 203 to 222: the inputs are parsed and the manifest is read.
ReadManifest ==
    /\ pc = "start"
    /\ LET parsedInputs == parseInputs(inputs) IN
       IF parsedInputs.kind = "throw"
       THEN /\ pc' = "failed"
            /\ failures' = failures \o Caught(parsedInputs)
            /\ UNCHANGED <<config, tagPrefix, currentVersion, calls, infos>>
       ELSE LET cfg == parsedInputs.value
                version == getCurrentVersion(files.manifest, cfg.packageJsonPath)
            IN  /\ config' = cfg
                /\ tagPrefix' = cfg.tagPrefix
                /\ calls' = calls \o getCurrentVersionCalls(files.manifest,
                                                            cfg.packageJsonPath)
                /\ currentVersion' =
                      IF version.kind = "throw" THEN currentVersion ELSE version.value
                /\ infos' = infos \o startInfos(cfg)
                      \o (IF version.kind = "throw" THEN <<>>
                          ELSE <<Message("Current version: ", version.value)>>)
                /\ failures' = failures \o Caught(version)
                /\ pc' = StepAfter(version, NextStep("start", TRUE))
    /\ UNCHANGED <<inputs, files, releaseBody, outputs, warnings, release>>
    /\ UNCHANGED <<latestTag, tagAlreadyExists, decision>>
    /\ UNCHANGED <<manifestVars, changelogVars, fallbackVars, gitTagsVars>>
    /\ UNCHANGED <<repository, previousRuns>>

\* Lines 225 and 226: the tags are listed.
ListTags ==
    /\ pc = "getTags"
    /\ \E outcome \in TagListOutcomes(repository.tags, config.tagPrefix) :
          LET listed == getTags(config.tagPrefix, outcome) IN
          /\ calls' = Append(calls, Call("git tag -l", config.tagPrefix \o <<"*">>,
                                         <<>>, ExitStatus(outcome)))
          /\ warnings' = warnings \o listed.warnings
          /\ latestTag' =
                IF listed.result.kind = "throw" THEN latestTag
                ELSE IF Len(listed.result.value) > 0
                THEN Some(listed.result.value[1]) ELSE Null
          /\ failures' = failures \o Caught(listed.result)
          /\ pc' = StepAfter(listed.result, NextStep("getTags", TRUE))
    /\ UNCHANGED <<inputs, config, files, releaseBody, outputs, infos, release>>
    /\ UNCHANGED <<currentVersion, tagPrefix, tagAlreadyExists, decision>>
    /\ UNCHANGED <<manifestVars, changelogVars, fallbackVars, gitTagsVars>>
    /\ UNCHANGED <<repository, previousRuns>>

\* Lines 229 and 230: the new tag is looked up.
CheckTagExists ==
    /\ pc = "tagExists"
    /\ LET newTagName == buildTagName(config.tagPrefix, currentVersion) IN
       \E outcome \in RevParseOutcomes(repository.tags, newTagName) :
          LET found == tagExists(newTagName, outcome)
          IN  /\ calls' = Append(calls, Call("git rev-parse", newTagName, <<>>,
                                             ExitStatus(outcome)))
              /\ tagAlreadyExists' =
                    IF found.kind = "throw" THEN tagAlreadyExists ELSE found.value
              /\ failures' = failures \o Caught(found)
              /\ pc' = StepAfter(found, NextStep("tagExists", TRUE))
    /\ UNCHANGED <<inputs, config, files, releaseBody, outputs, warnings, infos, release>>
    /\ UNCHANGED <<currentVersion, latestTag, tagPrefix, decision>>
    /\ UNCHANGED <<manifestVars, changelogVars, fallbackVars, gitTagsVars>>
    /\ UNCHANGED <<repository, previousRuns>>

\* Lines 233 to 262: the decision is taken, logged and put into the outputs,
\* and the run ends when no release is to be created.
DecideRelease ==
    /\ pc = "decide"
    /\ LET newTagName == buildTagName(config.tagPrefix, currentVersion)
           dec == determineReleaseDecision(currentVersion, latestTag,
                                           config.tagPrefix, tagAlreadyExists)
           next == NextStep("decide", dec.shouldCreateRelease)
       IN  /\ decision' = dec
           /\ infos' = infos
                 \o decisionInfos(latestTag, dec, tagAlreadyExists, currentVersion)
                 \o (IF next = "done"
                     THEN <<Message("Action completed (no release created)", <<>>)>>
                     ELSE <<>>)
           /\ warnings' = warnings
                 \o decisionWarnings(latestTag, dec, tagAlreadyExists, newTagName)
           /\ outputs' = outputs \o decisionOutputs(dec, currentVersion)
                 \o (IF next = "done"
                     THEN <<Output("release-created", <<"false">>)>> ELSE <<>>)
           /\ pc' = next
    /\ UNCHANGED <<inputs, config, files, releaseBody, calls, failures, release>>
    /\ UNCHANGED <<currentVersion, latestTag, tagPrefix, tagAlreadyExists>>
    /\ UNCHANGED <<manifestVars, changelogVars, fallbackVars, gitTagsVars>>
    /\ UNCHANGED <<repository, previousRuns>>

\* Lines 265 to 282: the changelog section is read, or replaced by the
\* default message.
ReadChangelog ==
    /\ pc = "changelog"
    /\ LET rawChangelogContent ==
               extractChangelog(files.changelog, config.changelogPath, currentVersion)
           blank == rawChangelogContent.kind = "return"
                    /\ isBlank(rawChangelogContent.value)
       IN  /\ calls' = calls
                 \o extractChangelogCalls(files.changelog, config.changelogPath)
                 \o (IF blank
                     THEN <<Call("fileExists", config.changelogPath, <<>>,
                                 BooleanToString(fileExists(files.changelog))[1])>>
                     ELSE <<>>)
           /\ warnings' = warnings
                 \o (IF rawChangelogContent.kind = "throw" THEN <<>>
                     ELSE changelogWarnings(rawChangelogContent.value, files.changelog,
                                            config.changelogPath, currentVersion))
           /\ releaseBody' =
                 IF rawChangelogContent.kind = "throw" THEN releaseBody
                 ELSE Some(getChangelogWithFallback(rawChangelogContent.value,
                                                    currentVersion))
           /\ infos' = infos
                 \o <<Message("Extracting changelog for version ", currentVersion)>>
                 \o (IF rawChangelogContent.kind = "throw" THEN <<>>
                     ELSE <<Message("Creating tag: ", decision.newTagName)>>)
           /\ failures' = failures \o Caught(rawChangelogContent)
           /\ pc' = StepAfter(rawChangelogContent, NextStep("changelog", TRUE))
    /\ UNCHANGED <<inputs, config, files, outputs, release>>
    /\ UNCHANGED decideVars
    /\ UNCHANGED <<manifestVars, changelogVars, fallbackVars, gitTagsVars>>
    /\ UNCHANGED <<repository, previousRuns>>

\* Lines 283 and 286: the tag is created and pushed. One of the commands of
\* createTag may fail (failedAt, 0: none does); git tag -a fails, unless an
\* earlier command does, when the repository holds the tag. git tag -a adds
\* the tag to the repository and git push pushes it.
CreateTag ==
    /\ pc = "createTag"
    /\ \E failedAt \in (IF decision.newTagName \in repository.tags THEN 1..3
                         ELSE 0..Len(createTagCommands(<<>>, <<>>))) :
          LET created == createTag(decision.newTagName,
                                   ReleaseOf(decision.newTagName), failedAt)
          IN  /\ calls' = calls \o created.calls
              /\ repository' =
                    [tags |-> IF failedAt \in {0, 4}
                              THEN repository.tags \cup {decision.newTagName}
                              ELSE repository.tags,
                     pushed |-> IF failedAt = 0
                                THEN repository.pushed \cup {decision.newTagName}
                                ELSE repository.pushed]
              /\ infos' = infos \o created.infos
                    \o (IF created.result.kind = "throw" THEN <<>>
                        ELSE <<Message("Creating GitHub release...", <<>>)>>)
              /\ failures' = failures \o Caught(created.result)
              /\ pc' = StepAfter(created.result, NextStep("createTag", TRUE))
    /\ UNCHANGED <<inputs, config, files, releaseBody, outputs, warnings, release>>
    /\ UNCHANGED decideVars
    /\ UNCHANGED <<manifestVars, changelogVars, fallbackVars, gitTagsVars>>
    /\ UNCHANGED previousRuns

\* Lines 287 to 306: the release is created and the outputs are set.
CreateRelease ==
    /\ pc = "createRelease"
    /\ \E response \in ReleaseResponses :
          LET params == [owner |-> <<"owner">>, repo |-> <<"repo">>,
                         tagName |-> decision.newTagName,
                         name |-> decision.newTagName,
                         body |-> releaseBody[1],
                         draft |-> config.createDraft,
                         prerelease |-> config.createPrerelease]
              releaseResult == createGitHubRelease(params, response)
          IN  /\ release' = Some(params)
              /\ calls' = Append(calls, Call("createRelease", params.tagName,
                                             params.body, response.kind))
              /\ outputs' = outputs
                    \o (IF releaseResult.kind = "throw" THEN <<>>
                        ELSE releaseOutputs(releaseResult.value, decision.newTagName))
              /\ infos' = infos
                    \o (IF releaseResult.kind = "throw" THEN <<>>
                        ELSE << Message("Release created successfully!", <<>>),
                                Message("Release URL: ", releaseResult.value.htmlUrl),
                                Message("Action completed successfully!", <<>>) >>)
              /\ failures' = failures \o Caught(releaseResult)
              /\ pc' = StepAfter(releaseResult, NextStep("createRelease", TRUE))
    /\ UNCHANGED <<inputs, config, files, releaseBody, warnings>>
    /\ UNCHANGED decideVars
    /\ UNCHANGED <<manifestVars, changelogVars, fallbackVars, gitTagsVars>>
    /\ UNCHANGED <<repository, previousRuns>>

\* The action is run again on the same files and the repository the earlier
\* run left: every local of run starts anew. Of the run that ended, how it
\* ended, the tag it pushed and whether its release call failed are kept.
Rerun ==
    /\ pc \in {"done", "failed"}
    /\ Len(previousRuns) + 1 < MaxRuns
    /\ LET pushes == {i \in 1..Len(calls) : /\ calls[i].op = "git push origin"
                                            /\ calls[i].outcome = "exit 0"}
       IN  previousRuns' = Append(previousRuns,
              [ended |-> pc,
               pushed |-> IF pushes = {} THEN Null
                          ELSE Some(calls[CHOOSE i \in pushes : TRUE].arg),
               releaseFailed |-> \E i \in 1..Len(calls) :
                                    /\ calls[i].op = "createRelease"
                                    /\ calls[i].outcome = "rejected"])
    /\ pc' = "start"
    /\ config' = NotYet
    /\ releaseBody' = Null
    /\ calls' = <<>>
    /\ outputs' = <<>>
    /\ failures' = <<>>
    /\ warnings' = <<>>
    /\ infos' = <<>>
    /\ release' = Null
    /\ currentVersion' = <<>>
    /\ latestTag' = Null
    /\ tagPrefix' = <<>>
    /\ tagAlreadyExists' = FALSE
    /\ decision' = NotYet
    /\ UNCHANGED <<inputs, files, repository>>
    /\ UNCHANGED <<manifestVars, changelogVars, fallbackVars, gitTagsVars>>

NextRun ==
    \/ ReadManifest
    \/ ListTags
    \/ CheckTagExists
    \/ DecideRelease
    \/ ReadChangelog
    \/ CreateTag
    \/ CreateRelease
    \/ Rerun

SpecRun == InitRun /\ [][NextRun]_vars

\* The run has ended: it returned, or it caught an error.
RunDone == pc = "done"
RunFailed == pc = "failed"

--------------------------------------------------------------------------
(* The manifest parser: claim C7 *)

\* The version member of a manifest content that is valid JSON.
VersionField == GetProperty(JSONparse(packageContent).val, "version")

\* C7: the parser returns the version field of every valid JSON content whose
\* version is a string, returns the empty string for every valid content
\* without the field or with a falsy version, and throws only when the content
\* is not valid JSON.
C7_ManifestParser ==
    ManifestParsed =>
        /\ JSONparse(packageContent).ok =>
              /\ VersionField.type = "string" =>
                    packageResult = Return(VersionField)
              /\ IsFalsy(VersionField) =>
                    packageResult = Return(JsString(""))
        /\ packageResult.kind = "throw" => ~JSONparse(packageContent).ok

--------------------------------------------------------------------------
(* The changelog parser: claims C8 to C10 *)

\* A line of white space only, or an empty one.
BlankLine(line) == \A i \in 1..Len(line) : line[i] \in {" ", "\t"}

\* A line that begins with the level-2 heading marker.
Level2(line) == Len(line) >= 3 /\ line[1] = "#" /\ line[2] = "#" /\ line[3] = " "

\* The places of the lines written under the heading at line h: those after h
\* with no level-2 heading between h and them.
Under(lines, h) ==
    {k \in (h + 1)..Len(lines) : \A m \in (h + 1)..k : ~Level2(lines[m])}

RECURSIVE FourSpaces(_)
\* The line with four spaces in the place of each tab.
FourSpaces(line) ==
    IF line = <<>> THEN <<>>
    ELSE IF Head(line) = "\t" THEN <<" ", " ", " ", " ">> \o FourSpaces(Tail(line))
    ELSE <<Head(line)>> \o FourSpaces(Tail(line))

\* The lines under the heading at line h, from the first to the last that is
\* not blank, tabs replaced, as one text.
BodyUnder(lines, h) ==
    LET full == {k \in Under(lines, h) : ~BlankLine(lines[k])} IN
    IF full = {} THEN <<>>
    ELSE LET first == CHOOSE k \in full : \A m \in full : k <= m
             last == CHOOSE k \in full : \A m \in full : m <= k
         IN  Join([k \in 1..(last - first + 1) |-> FourSpaces(lines[first + k - 1])],
                  <<"\n">>)

\* The versions that have a heading in some changelog.
DocVersions == {V10, V20, V110, V10pre, V10build}

\* C8: when the first level-2 heading of the document is a heading for the
\* requested version, in any of the four styles, the parser returns the body
\* written under that heading.
C8_HeadingStyles ==
    ChangelogParsed =>
        LET lines == Split(argContent, "\n") IN
        \A h \in 1..Len(lines), style \in HeadingStyles :
            (/\ lines[h] = Heading(style, argVersion)
             /\ \A m \in 1..(h - 1) : ~Level2(lines[m])) =>
                changelog = Return(BodyUnder(lines, h))

\* C9: in a changelog with a section for a version followed by a section for
\* another version, the two with no line in common, the text returned for one
\* of them holds no line of the other's section.
C9_SectionsIsolated ==
    (ChangelogParsed /\ changelog.kind = "return") =>
        LET lines == Split(argContent, "\n")
            out == Split(changelog.value, "\n")
            Written(h) == {FourSpaces(lines[k]) :
                              k \in {m \in Under(lines, h) : ~BlankLine(lines[m])}}
            HeadingFor(h, v) == \E style \in HeadingStyles : lines[h] = Heading(style, v)
        IN  \A a \in DocVersions, b \in DocVersions :
            \A i \in 1..Len(lines), j \in 1..Len(lines) :
                (/\ a # b
                 /\ i < j
                 /\ HeadingFor(i, a)
                 /\ HeadingFor(j, b)
                 /\ Written(i) \cap Written(j) = {}) =>
                    /\ argVersion = a => \A k \in 1..Len(out) : out[k] \notin Written(j)
                    /\ argVersion = b => \A k \in 1..Len(out) : out[k] \notin Written(i)

\* C10: the text returned neither starts nor ends with a blank line, holds no
\* tab, and is the section from its first to its last line that is not blank,
\* the blank lines between them kept, with four spaces for each tab.
C10_TrimmedAndExpanded ==
    (ChangelogParsed /\ changelog.kind = "return") =>
        LET lines == Split(argContent, "\n")
            h == StartLineIndex(lines, HeaderRegex(argVersion))
            out == Split(changelog.value, "\n")
        IN  /\ ~BlankLine(out[1]) \/ changelog.value = <<>>
            /\ ~BlankLine(out[Len(out)]) \/ changelog.value = <<>>
            /\ \A i \in 1..Len(changelog.value) : changelog.value[i] # "\t"
            /\ h > 0 => changelog.value = BodyUnder(lines, h)
            /\ h = 0 => changelog.value = <<>>

\* A section with a blank line before and after a line that holds a tab.
C10_Witness ==
    /\ ChangelogParsed
    /\ argContent = Join(<<Heading("bracket", V10), <<>>, <<"\t", "a">>, <<" ">>>>,
                         <<"\n">>)
    /\ argVersion = V10
    /\ changelog = Return(<<" ", " ", " ", " ", "a">>)

--------------------------------------------------------------------------
(* The changelog parser: claim C11 *)

\* The requested version without a leading "v".
Normalized(version) ==
    IF Len(version) > 0 /\ version[1] = "v" THEN Tail(version) ELSE version

\* part occurs in str character for character.
Contains(str, part) ==
    \E i \in 1..(Len(str) - Len(part) + 1) : SubSeq(str, i, i + Len(part) - 1) = part

\* A level-2 heading that holds the version literally after the marker.
LiteralHeading(line, version) ==
    Level2(line) /\ Contains(SubSeq(line, 4, Len(line)), Normalized(version))

\* C11: the line taken as the heading of the requested version is the first
\* line that begins with "## " and holds the normalized version literally
\* after the marker, and no line is taken when there is no such line.
C11_LiteralHeading ==
    ChangelogParsed =>
        LET lines == Split(argContent, "\n")
            headerRegex == HeaderRegex(argVersion)
        IN  /\ headerRegex.ok
            /\ \A h \in 1..Len(lines) :
                  (/\ LiteralHeading(lines[h], argVersion)
                   /\ \A m \in 1..(h - 1) : ~LiteralHeading(lines[m], argVersion))
                      => StartLineIndex(lines, headerRegex) = h
            /\ (\A h \in 1..Len(lines) : ~LiteralHeading(lines[h], argVersion))
                  => StartLineIndex(lines, headerRegex) = 0

--------------------------------------------------------------------------
(* The changelog fallback: claim C12 *)

\* C12: the result is "Release " followed by the version when the content is
\* the empty string, and is the content itself for every other content, those
\* of white space only included.
C12_Fallback ==
    FallbackCalled =>
        /\ fallbackContent = <<>> =>
              /\ Len(fallbackResult.value) = 8 + Len(fallbackVersion)
              /\ SubSeq(fallbackResult.value, 1, 8)
                    = <<"R", "e", "l", "e", "a", "s", "e", " ">>
              /\ SubSeq(fallbackResult.value, 9, Len(fallbackResult.value))
                    = fallbackVersion
        /\ fallbackContent # <<>> => fallbackResult.value = fallbackContent

\* A content of white space only is returned as it is.
C12_Witness ==
    /\ FallbackCalled
    /\ fallbackContent = <<" ", "\n">>
    /\ fallbackVersion = V10
    /\ fallbackResult = Return(<<" ", "\n">>)

--------------------------------------------------------------------------
(* The run: claims C13 and C14 *)

\* The operation a call belongs to: 1 read manifest, 2 list tags, 3 check the
\* tag, 5 read changelog, 6 create tag, 7 create release (4 is the decision).
Operation(call) ==
    CASE call.op \in {"fileExists", "readFile"} /\ call.arg = config.packageJsonPath -> 1
      [] call.op = "git tag -l" -> 2
      [] call.op = "git rev-parse" -> 3
      [] call.op \in {"fileExists", "readFile"} /\ call.arg = config.changelogPath -> 5
      [] call.op \in {"git config user.name", "git config user.email",
                      "git tag -a", "git push origin"} -> 6
      [] call.op = "createRelease" -> 7

\* The external operation that comes before an operation.
Before(operation) == IF operation = 5 THEN 3 ELSE operation - 1

\* The calls made so far with the given name.
CallsOf(op) == {i \in 1..Len(calls) : calls[i].op = op}

\* C13: the calls of a run are made in the order read manifest, list tags,
\* check tag, read changelog, create tag, create release; no operation is
\* begun before the one before it was made and had completed, the decision is
\* taken after the tag check, and the last three only follow a decision to
\* create a release.
C13_StrictOrder ==
    /\ \A i \in 1..Len(calls), j \in 1..Len(calls) :
          i < j => Operation(calls[i]) <= Operation(calls[j])
    /\ \A j \in 1..Len(calls) :
          Operation(calls[j]) > 1 =>
              \E i \in 1..(j - 1) : Operation(calls[i]) = Before(Operation(calls[j]))
    /\ (\E i \in 1..Len(calls) : Operation(calls[i]) >= 2) => currentVersion # <<>>
    /\ Decided => CallsOf("git rev-parse") # {}
    /\ (\E i \in 1..Len(calls) : Operation(calls[i]) >= 5) =>
          Decided /\ decision.shouldCreateRelease
    /\ (\E i \in 1..Len(calls) : Operation(calls[i]) = 6) => releaseBody # Null
    /\ CallsOf("createRelease") # {} => CallsOf("git push origin") # {}

\* A run that made every operation.
C13_Witness ==
    /\ RunDone
    /\ release # Null
    /\ \A operation \in {1, 2, 3, 5, 6, 7} :
          \E i \in 1..Len(calls) : Operation(calls[i]) = operation

\* C14: the tag is created at most once and the release at most once, neither
\* without a decision to create a release taken before, and a run whose
\* decision is not to create one makes no tag, no push and no release call.
C14_OnceAfterDecision ==
    LET writes == {i \in 1..Len(calls) : Operation(calls[i]) \in {6, 7}} IN
    /\ \A op \in {"git config user.name", "git config user.email", "git tag -a",
                  "git push origin", "createRelease"} : Cardinality(CallsOf(op)) <= 1
    /\ writes # {} => Decided /\ decision.shouldCreateRelease
    /\ (Decided /\ ~decision.shouldCreateRelease) =>
          /\ writes = {}
          /\ release = Null
          /\ RunDone

\* A run that ended without a release because the tag exists.
C14_Witness ==
    /\ RunDone
    /\ decision.versionChanged
    /\ ~decision.shouldCreateRelease
    /\ release = Null

--------------------------------------------------------------------------
(* The run: claims C15 and C16 *)

\* The names of the outputs set so far, and the outputs that tell of a release.
OutputNames == {outputs[i].name : i \in 1..Len(outputs)}
SuccessOutputs == {"release-created", "release-id", "release-url", "tag-name"}
ReleaseCreatedTrue ==
    \E i \in 1..Len(outputs) : outputs[i] = Output("release-created", <<"true">>)

\* The ways a call ends that are a failure of the call.
FailedOutcomes == {"throw", "exit nonzero", "rejected"}

C16_Outputs ==
    /\ RunDone => {"version-changed", "version", "release-created"} \subseteq OutputNames
    /\ \A name \in {"release-id", "release-url", "tag-name"} :
          name \in OutputNames <=> ReleaseCreatedTrue
    /\ ReleaseCreatedTrue =>
          \E i \in CallsOf("createRelease") : calls[i].outcome = "resolved"
    /\ (RunDone /\ CallsOf("createRelease") # {}) => ReleaseCreatedTrue

\* A run that created a release and set the six outputs.
C16_Witness ==
    /\ RunDone
    /\ ReleaseCreatedTrue
    /\ OutputNames = SuccessOutputs \cup {"version-changed", "version"}

--------------------------------------------------------------------------
(* The run: claims C17 to C20 *)

\* The changelog has a heading for the version, in one of the four styles.
SectionFor(file, version) ==
    /\ file.state = "file"
    /\ LET lines == Split(file.content, "\n") IN
       \E h \in 1..Len(lines), style \in HeadingStyles :
           lines[h] = Heading(style, version)

\* The changelog is missing, or has no section for the version of the manifest.
NoChangelogSection ==
    \/ files.changelog = Absent
    \/ files.changelog.state = "file" /\ ~SectionFor(files.changelog, currentVersion)

\* C17: when a release is to be created and the changelog is missing or has
\* no section for the current version, the run does not fail at the changelog,
\* and the body of the release is 'Release ' followed by the current version;
\* a run whose manifest is missing fails.
C17_ChangelogOptional ==
    /\ (Decided /\ decision.shouldCreateRelease /\ NoChangelogSection) =>
          /\ ~(RunFailed /\ releaseBody = Null)
          /\ releaseBody # Null => releaseBody = Some(ReleaseOf(currentVersion))
          /\ release # Null => release[1].body = ReleaseOf(currentVersion)
    /\ (pc # "start" /\ files.manifest = Absent) => RunFailed

\* The existence check of the run reported that the tag exists.
TagReportedExisting == \E i \in CallsOf("git rev-parse") : calls[i].outcome = "exit 0"

\* The warning about the tag of the run.
TagExistsWarning ==
    Message("Tag ", config.tagPrefix \o currentVersion
                    \o <<" already exists. Skipping release.">>)
TagExistsWarned == \E i \in 1..Len(warnings) : warnings[i] = TagExistsWarning

\* C18 as stated: in every run whose existence check reported that the tag
\* exists, the warning is logged once the decision is taken.
C18_WarningWheneverTagExists ==
    (Decided /\ TagReportedExisting) => TagExistsWarned

\* C18: in every run whose existence check reported that the tag exists, in
\* which a prior tag was listed and the current version differs from the
\* version of the latest tag, the warning is logged once the decision is taken.
C18_WarningWhenVersionChanged ==
    (/\ Decided
     /\ TagReportedExisting
     /\ latestTag # Null
     /\ currentVersion # extractVersionFromTag(latestTag[1], config.tagPrefix))
        => TagExistsWarned

\* A run that ended without a release, with the warning, because the tag of a
\* new version exists.
C18_Witness ==
    /\ RunDone
    /\ TagReportedExisting
    /\ latestTag = Some(<<"v">> \o V122)
    /\ currentVersion = V123
    /\ TagExistsWarned

\* C19: when git tag -l exits with a failure, the warning is logged, there is
\* no latest tag, the run has not failed at that step, and the decision is
\* that of a first release: versionChanged and shouldCreateRelease, no
\* latestVersion.
C19_TagListFailureTolerated ==
    \A i \in CallsOf("git tag -l") :
        calls[i].outcome = "exit nonzero" =>
            /\ \E w \in 1..Len(warnings) : warnings[w].text = "git tag command failed: "
            /\ latestTag = Null
            /\ ~(RunFailed /\ Len(calls) = i)
            /\ Decided =>
                  /\ decision.versionChanged
                  /\ decision.shouldCreateRelease
                  /\ "latestVersion" \notin DOMAIN decision

\* A run that created a release after git tag -l had failed while printing a
\* tag.
C19_Witness ==
    /\ RunDone
    /\ \E i \in CallsOf("git tag -l") : calls[i].outcome = "exit nonzero"
    /\ release # Null
    /\ warnings[1] = Message("git tag command failed: ", <<"fatal">>)

\* The manifest is valid JSON without a usable version: the member is absent,
\* empty, or of white space only.
NoUsableVersion ==
    /\ files.manifest.state = "file"
    /\ JSONparse(files.manifest.content).ok
    /\ LET packageJson == JSONparse(files.manifest.content).val IN
       /\ packageJson.type = "object"
       /\ \/ "version" \notin DOMAIN packageJson.props
          \/ /\ packageJson.props["version"].type = "string"
             /\ \A i \in 1..Len(Characters(packageJson.props["version"].s)) :
                   Characters(packageJson.props["version"].s)[i] \in {" ", "\t", "\n", "\r"}

\* No call to git or to the GitHub API was made, and no output was set.
OnlyFilesTouched ==
    /\ \A i \in 1..Len(calls) : calls[i].op \in {"fileExists", "readFile"}
    /\ outputs = <<>>

\* C20: a run whose manifest is missing fails with 'package.json not found
\* at: ' and the path, one whose manifest has no usable version fails with 'No
\* version found in package.json', both before any call to git or the GitHub
\* API and before any output is set.
C20_ManifestErrors ==
    (pc # "start" /\ inputs.githubToken # <<>>) =>
        /\ files.manifest = Absent =>
              /\ RunFailed
              /\ failures = <<Message("package.json not found at: ",
                                      config.packageJsonPath)>>
              /\ OnlyFilesTouched
        /\ NoUsableVersion =>
              /\ RunFailed
              /\ failures = <<Message("No version found in package.json", <<>>)>>
              /\ OnlyFilesTouched

\* A run that failed on a manifest whose version is of white space only.
C20_Witness ==
    /\ RunFailed
    /\ files.manifest = File(<<"{", "\"version\"", ":", "\" \"", "}">>)
    /\ failures = <<Message("No version found in package.json", <<>>)>>
    /\ calls = <<Call("fileExists", <<"package.json">>, <<>>, "true"),
                 Call("readFile", <<"package.json">>, <<>>, "return")>>

--------------------------------------------------------------------------
(* A release call that fails after the tag was created: claims C21 and C22 *)

\* createTag returned in this run: its four commands were made and exited 0.
TagCreatedInRun ==
    \E i \in CallsOf("git push origin") :
        calls[i].arg = decision.newTagName /\ calls[i].outcome = "exit 0"

\* createRelease was called in this run and rejected.
ReleaseCallFailed ==
    \E i \in CallsOf("createRelease") : calls[i].outcome = "rejected"

\* C21: when createRelease fails after createTag succeeded in the same run,
\* the run ends as failed, with one setFailed call; the tag stays in the
\* repository and on origin, and the failed createRelease is the last call of
\* the run: no git command and no other call follows it.
C21_TagOrphaned ==
    ReleaseCallFailed =>
        /\ TagCreatedInRun
        /\ RunFailed
        /\ Len(failures) = 1
        /\ decision.newTagName \in repository.tags
        /\ decision.newTagName \in repository.pushed
        /\ calls[Len(calls)].op = "createRelease"
        /\ \A i \in CallsOf("createRelease") : i = Len(calls)

\* A release call failed in a run that created and pushed the tag.
C21_Witness ==
    /\ ReleaseCallFailed
    /\ TagCreatedInRun
    /\ RunFailed
    /\ decision.newTagName \in repository.pushed


\* The run before this one created and pushed the tag, and its release call
\* failed; the tag it left behind.
AfterOrphanedTag ==
    /\ Len(previousRuns) > 0
    /\ LET earlier == previousRuns[Len(previousRuns)] IN
       /\ earlier.ended = "failed"
       /\ earlier.pushed # Null
       /\ earlier.releaseFailed
OrphanedTag == previousRuns[Len(previousRuns)].pushed[1]
RunEnded == RunDone \/ RunFailed

\* git tag -a was run for the orphaned tag in this run, and failed.
TagCreationFailed ==
    \E i \in CallsOf("git tag -a") :
        calls[i].arg = OrphanedTag /\ calls[i].outcome = "exit nonzero"

\* C22 as stated: the run that follows a run whose release call failed after
\* the tag was created attempts to create the same tag again, the tag command
\* fails, and the run ends as a failure.
C22_RerunFailsAtTag ==
    AfterOrphanedTag /\ RunEnded => RunFailed /\ TagCreationFailed

\* C22, amended: in the run that follows, no release is created and the tag
\* stays. When the tag listing returned tags, the existence check guards the
\* run: once the decision is taken the run ends successfully with
\* release-created set to false, and createTag is not called. Only when the
\* listing returned no tag is the same tag attempted again; git tag -a then
\* fails and the run ends as a failure.
C22_RerunSkipsOrFails ==
    AfterOrphanedTag =>
        /\ OrphanedTag \in repository.tags
        /\ CallsOf("createRelease") = {}
        /\ ~ReleaseCreatedTrue
        /\ \A i \in CallsOf("git tag -a") :
              calls[i].arg = OrphanedTag /\ calls[i].outcome = "exit nonzero"
        /\ decision # NotYet /\ latestTag # Null =>
              /\ RunDone
              /\ ~decision.shouldCreateRelease
              /\ CallsOf("git config user.name") = {}
              /\ outputs[Len(outputs)] = Output("release-created", <<"false">>)
        /\ decision # NotYet /\ latestTag = Null =>
              /\ decision.shouldCreateRelease
              /\ decision.newTagName = OrphanedTag
              /\ ~RunDone
        /\ RunDone => decision # NotYet /\ latestTag # Null

\* The run after the orphaned tag ended without a failure and without a
\* release: the listing returned the tag.
C22_Witness ==
    /\ AfterOrphanedTag
    /\ RunDone
    /\ failures = <<>>
    /\ CallsOf("git tag -a") = {}

\* The run after the orphaned tag attempted the tag again and failed.
C22_WitnessFailure == AfterOrphanedTag /\ RunFailed /\ TagCreationFailed

--------------------------------------------------------------------------
(* The changelog parser: claims C23 and C24 *)

\* The lines the pattern of the requested version matches.
MatchingLines(lines) ==
    {h \in 1..Len(lines) : Test(HeaderRegex(argVersion), lines[h])}

\* The least of a set of line numbers that is not empty.
First(places) == CHOOSE k \in places : \A m \in places : k <= m

\* The line that ends the section of the heading at line h: the first line
\* after h that begins with "## ", or the line after the last.
SectionEnd(lines, h) ==
    LET headings == {k \in (h + 1)..Len(lines) : Level2(lines[k])} IN
    IF headings = {} THEN Len(lines) + 1 ELSE First(headings)

\* C23: the heading is the first line the pattern of the requested version
\* matches; the text returned is made of the lines after it and before the
\* next line that begins with "## ", or the end of the document; every line
\* of that range that is not blank is part of the text, a line that begins
\* with "### " as well; the text is empty when no line matches.
C23_FirstHeadingAndSection ==
    ChangelogParsed =>
        LET lines == Split(argContent, "\n")
            matching == MatchingLines(lines)
        IN  /\ changelog.kind = "return"
            /\ matching = {} => changelog.value = <<>>
            /\ matching # {} =>
                  LET h == First(matching)
                      e == SectionEnd(lines, h)
                      section == SubSeq(lines, h + 1, e - 1)
                      out == Split(changelog.value, "\n")
                      kept == SelectSeq(section, LAMBDA line : ~BlankLine(line))
                      written == SelectSeq(out, LAMBDA line : ~BlankLine(line))
                  IN  /\ written = [k \in 1..Len(kept) |-> FourSpaces(kept[k])]
                      /\ kept = <<>> => changelog.value = <<>>
                      /\ Len(out) <= Len(section) \/ section = <<>>

\* The section of the first of two headings of the requested version holds a
\* level-3 heading and ends at the heading of another version.
C23_Witness ==
    /\ ChangelogParsed
    /\ argVersion = V10
    /\ argContent = Join(<<Heading("plain", V10), <<"#", "#", "#", " ", "b">>,
                           Heading("plain", V20), Heading("plain", V10)>>, <<"\n">>)
    /\ changelog = Return(<<"#", "#", "#", " ", "b">>)


\* C24: for a version that does not begin with "v", the parser returns for
\* "v" and the version what it returns for the version; one "v" only is
\* removed: "vv" and the version is looked up as "v" and the version.
C24_LeadingVStripped ==
    ChangelogParsed =>
        LET bare == IF StartsWith(argVersion, <<"v">>) THEN Tail(argVersion)
                    ELSE argVersion
        IN  /\ ~StartsWith(bare, <<"v">>)
            /\ changelog = parseChangelogContent(argContent,
                              IF argVersion = bare THEN <<"v">> \o bare ELSE bare)
            /\ HeaderRegex(<<"v", "v">> \o bare)
                  = RegExp(HeaderSource(EscapeDots(<<"v">> \o bare)))

\* The section of a version was asked for with a leading "v" and found.
C24_Witness ==
    /\ ChangelogParsed
    /\ argVersion = <<"v">> \o V10
    /\ changelog.kind = "return"
    /\ changelog.value # <<>>
    /\ changelog = parseChangelogContent(argContent, V10)

--------------------------------------------------------------------------
(* parseGitTags: claim C25 *)

\* The lines of the output without the white space around them, those that
\* are empty left out, in the order of the output.
TrimmedLines(output) ==
    LET lines == Split(output, "\n") IN
    SelectSeq([i \in 1..Len(lines) |-> Trim(lines[i])], LAMBDA line : line # <<>>)

\* C25: parseGitTags of the version module returns the lines of the output
\* in their order, each without the white space around it, the empty and the
\* blank lines left out; no tag returned is empty or begins or ends with
\* white space.
C25_TagsTrimmed ==
    GitTagsParsed =>
        /\ gitTags.version = TrimmedLines(gitOutput)
        /\ \A i \in 1..Len(gitTags.version) :
              /\ gitTags.version[i] # <<>>
              /\ Trim(gitTags.version[i]) = gitTags.version[i]

\* The same of the method of GitService.
C25_ServiceTagsTrimmed ==
    GitTagsParsed =>
        /\ gitTags.service = TrimmedLines(gitOutput)
        /\ \A i \in 1..Len(gitTags.service) :
              /\ gitTags.service[i] # <<>>
              /\ Trim(gitTags.service[i]) = gitTags.service[i]

--------------------------------------------------------------------------
(* GitService.createTag: claim C26 *)

\* The commands of createTag in the order the claim gives them.
CreateTagOps ==
    <<"git config user.name", "git config user.email", "git tag -a", "git push origin">>

\* The commands of createTag run so far in this run.
CreateTagCalls ==
    SelectSeq(calls, LAMBDA call : \E k \in DOMAIN CreateTagOps : call.op = CreateTagOps[k])

TagLogged == \E i \in 1..Len(infos) : infos[i].text = "Created and pushed tag: "

\* C26: the git commands of createTag are, in this order, config user.name,
\* config user.email, tag -a with the name and the message, push origin with
\* the name, four at most; a command is run only when every command before it
\* exited with 0, createTag stops only at a command that failed, and the line
\* "Created and pushed tag" is logged exactly when the four of them exited
\* with 0.
C26_CreateTagCommands ==
    LET made == CreateTagCalls IN
    /\ Len(made) <= Len(CreateTagOps)
    /\ \A i \in 1..Len(made) :
          /\ made[i].op = CreateTagOps[i]
          /\ i < Len(made) => made[i].outcome = "exit 0"
          /\ i > 2 => made[i].arg = decision.newTagName
          /\ i = 3 => made[i].detail = ReleaseOf(decision.newTagName)
    /\ made # <<>> =>
          \/ Len(made) = Len(CreateTagOps)
          \/ made[Len(made)].outcome = "exit nonzero"
    /\ (made # <<>> /\ made[Len(made)].outcome = "exit nonzero") =>
          /\ RunFailed
          /\ calls[Len(calls)] = made[Len(made)]
    /\ TagLogged <=>
          /\ Len(made) = Len(CreateTagOps)
          /\ made[Len(made)].outcome = "exit 0"
    /\ \A i \in 1..Len(infos) :
          infos[i].text = "Created and pushed tag: " =>
              infos[i].arg = decision.newTagName

\* The tag was created and the push failed: nothing was logged.
C26_Witness ==
    /\ Len(CreateTagCalls) = 4
    /\ CreateTagCalls[3].outcome = "exit 0"
    /\ CreateTagCalls[4].outcome = "exit nonzero"
    /\ ~TagLogged
    /\ RunFailed

--------------------------------------------------------------------------
(* The warning and the default message: claim C27 *)

\* The warning that the default message is used was logged in this run.
DefaultMessageWarned ==
    \E i \in 1..Len(warnings) :
        warnings[i] = Message("No changelog content found, using default message", <<>>)

\* What extractChangelog returned in this run, the release body being set.
ExtractedContent ==
    extractChangelog(files.changelog, config.changelogPath, currentVersion).value

\* C27 as stated: the warning is logged exactly when the release body is the
\* text "Release " and the version.
C27_WarningIffFallbackText ==
    releaseBody # Null =>
        (DefaultMessageWarned <=> releaseBody[1] = ReleaseOf(currentVersion))

\* C27, amended: the warning is logged exactly when the content extracted is
\* empty, and the release body is then "Release " and the version; with no
\* warning the body is the content extracted. The content extracted is empty
\* or holds a character that is not white space, so that the test for a blank
\* content and the test for an empty one agree.
C27_WarningIffNoContent ==
    releaseBody # Null =>
        /\ DefaultMessageWarned <=> ExtractedContent = <<>>
        /\ DefaultMessageWarned => releaseBody[1] = ReleaseOf(currentVersion)
        /\ ~DefaultMessageWarned => releaseBody[1] = ExtractedContent
        /\ \/ ExtractedContent = <<>>
           \/ \E i \in 1..Len(ExtractedContent) : ExtractedContent[i] \notin WhiteSpace
        /\ \E i \in 1..Len(releaseBody[1]) : releaseBody[1][i] \notin WhiteSpace

\* The changelog has a section of blank lines for the version: the warning
\* was logged and the body is the default message.
C27_Witness ==
    /\ releaseBody = Some(ReleaseOf(currentVersion))
    /\ DefaultMessageWarned
    /\ files.changelog = File(Join(<<Heading("plain", V123), <<" ">>, <<>>>>, <<"\n">>))

--------------------------------------------------------------------------
(* The two changelog parsers: claim C28 *)

\* C28: parseChangelogContent of changelog.ts and parseChangelogContent of
\* parsers/changelog.parser.ts return the same for every changelog and every
\* version.
C28_SameResult == ChangelogParsed => inlineChangelog = changelog

\* Both returned the section of a changelog that has blank lines at both ends
\* of the section and a tab in it.
C28_Witness ==
    /\ ChangelogParsed
    /\ argContent = Join(<<Heading("plain", V10), <<" ">>, <<"\t", "a">>, <<>>>>, <<"\n">>)
    /\ argVersion = V10
    /\ inlineChangelog = Return(<<" ", " ", " ", " ", "a">>)
    /\ changelog = inlineChangelog

--------------------------------------------------------------------------
(* One tag name in a run: claims C29 and C30 *)

\* createTag was invoked in this run: its first command was run.
CreateTagInvoked == CallsOf("git config user.name") # {}

\* The existence check of this run returned true for the name.
ExistenceConfirmed(name) ==
    \E i \in CallsOf("git rev-parse") :
        calls[i].arg = name /\ calls[i].outcome = "exit 0"

C29_NotCreatedAfterListedTag ==
    CreateTagInvoked /\ latestTag # Null => ~ExistenceConfirmed(decision.newTagName)


\* The arguments of the calls made so far with the given name.
ArgsOf(op) == {calls[i].arg : i \in CallsOf(op)}

\* C30: in a run that created a release, the name made of the tag prefix and
\* the current version is the one name of the existence check, of git tag -a,
\* whose message is "Release " and the name, of git push, of the release's
\* tag_name and of its title, and of the output tag-name; createRelease is
\* called only after the four commands of createTag for that name exited
\* with 0.
C30_OneTagName ==
    LET name == config.tagPrefix \o currentVersion IN
    /\ CallsOf("createRelease") # {} =>
          /\ ArgsOf("createRelease") = {name}
          /\ release # Null /\ release[1].tagName = name /\ release[1].name = name
          /\ ArgsOf("git rev-parse") = {name}
          /\ ArgsOf("git tag -a") = {name}
          /\ ArgsOf("git push origin") = {name}
          /\ \A i \in CallsOf("git tag -a") : calls[i].detail = ReleaseOf(name)
          /\ \A i \in CallsOf("createRelease") :
                \E t \in CallsOf("git tag -a"), p \in CallsOf("git push origin") :
                    /\ t < p /\ p < i
                    /\ calls[t].outcome = "exit 0"
                    /\ calls[p].outcome = "exit 0"
          /\ decision.newTagName = name
    /\ ReleaseCreatedTrue =>
          /\ CallsOf("createRelease") # {}
          /\ \E i \in 1..Len(outputs) : outputs[i] = Output("tag-name", name)
          /\ \A i \in 1..Len(outputs) :
                outputs[i].name = "tag-name" => outputs[i].value = name

\* A release was created with a tag prefix that is not the default one.
C30_Witness ==
    /\ RunDone
    /\ ReleaseCreatedTrue
    /\ config.tagPrefix = <<"r">>
    /\ release[1].tagName = <<"r">> \o V123
    /\ \E i \in 1..Len(outputs) : outputs[i] = Output("tag-name", <<"r">> \o V123)

--------------------------------------------------------------------------
(* The release decision: claims C1 to C6 *)

\* C1: no decision has shouldCreateRelease = true with versionChanged = false.
C1_CreateImpliesChanged ==
    Decided => (decision.shouldCreateRelease => decision.versionChanged)

\* A decision to create a release, reached with a prior tag of another version.
C1_Witness ==
    /\ Decided
    /\ latestTag # Null
    /\ decision.shouldCreateRelease
    /\ decision.versionChanged

\* C2: without a latest tag the decision is versionChanged and
\* shouldCreateRelease, whatever tagAlreadyExists is, and it has no
\* latestVersion field.
C2_FirstRelease ==
    (Decided /\ latestTag = Null) =>
        /\ decision.versionChanged
        /\ decision.shouldCreateRelease
        /\ "latestVersion" \notin DOMAIN decision

\* The first release decided while the candidate tag is reported to exist.
C2_Witness ==
    /\ Decided
    /\ latestTag = Null
    /\ tagAlreadyExists
    /\ tagPrefix # <<>>

\* C3: when the latest tag is tagPrefix followed by the current version, the
\* decision is unchanged, creates no release, and latestVersion is that version.
C3_Unchanged ==
    (Decided /\ latestTag = Some(tagPrefix \o currentVersion)) =>
        /\ ~decision.versionChanged
        /\ ~decision.shouldCreateRelease
        /\ "latestVersion" \in DOMAIN decision
        /\ decision.latestVersion = currentVersion

\* The unchanged decision with a prefix, and the candidate tag existing.
C3_Witness ==
    /\ Decided
    /\ tagPrefix # <<>>
    /\ latestTag = Some(tagPrefix \o currentVersion)
    /\ tagAlreadyExists

\* C4: when the latest tag is tagPrefix followed by a version other than the
\* current one, versionChanged is true and shouldCreateRelease is the negation
\* of tagAlreadyExists.
C4_Changed ==
    Decided =>
        \A v2 \in Strings(TagChars, MaxPrefixLen + MaxVersionLen) :
            (v2 # currentVersion /\ latestTag = Some(tagPrefix \o v2)) =>
                /\ decision.versionChanged
                /\ decision.shouldCreateRelease = ~tagAlreadyExists

\* A changed version whose release is suppressed by the existing tag; the
\* two versions differ only by a suffix.
C4_Witness ==
    /\ Decided
    /\ tagAlreadyExists
    /\ \E v2 \in Versions :
          /\ latestTag = Some(tagPrefix \o v2)
          /\ currentVersion = v2 \o <<"-">>
    /\ ~decision.shouldCreateRelease

\* C5: newTagName is tagPrefix followed at once by currentVersion, and the
\* decision's currentVersion is the input.
C5_TagName ==
    Decided =>
        /\ Len(decision.newTagName) = Len(tagPrefix) + Len(currentVersion)
        /\ SubSeq(decision.newTagName, 1, Len(tagPrefix)) = tagPrefix
        /\ SubSeq(decision.newTagName, Len(tagPrefix) + 1,
                  Len(decision.newTagName)) = currentVersion
        /\ decision.currentVersion = currentVersion

\* A decision of a branch other than the first release, with a prefix.
C5_Witness ==
    /\ Decided
    /\ tagPrefix # <<>>
    /\ latestTag # Null
    /\ ~decision.versionChanged

\* C6: latestVersion is present exactly when a latest tag was passed; it is the
\* tag without its leading tagPrefix, or the whole tag when the tag does not
\* start with tagPrefix; versionChanged says whether currentVersion differs
\* from it.
C6_LatestVersion ==
    Decided =>
        /\ ("latestVersion" \in DOMAIN decision) <=> (latestTag # Null)
        /\ latestTag # Null =>
            LET tag == latestTag[1]
                rests == {r \in Strings(TagChars, Len(tag)) : tag = tagPrefix \o r}
            IN  /\ \A r \in rests : decision.latestVersion = r
                /\ rests = {} => decision.latestVersion = tag
                /\ decision.versionChanged <=>
                      (currentVersion # decision.latestVersion)

\* A tag that does not start with the prefix and is the current version.
C6_Witness ==
    /\ Decided
    /\ tagPrefix # <<>>
    /\ latestTag = Some(currentVersion)
    /\ \A r \in Strings(TagChars, Len(currentVersion)) :
          currentVersion # tagPrefix \o r
    /\ ~decision.versionChanged

==========================================================================
